---- MODULE Spec2Model ----
(***************************************************************************)
(* A model of the JSONata parser and evaluator of jsonata-python           *)
(* (src/jsonata/Parser, src/jsonata/Jsonata/Jsonata.py and its helpers).   *)
(*                                                                         *)
(* The program is a set of largely independent mechanisms.  Each one is    *)
(* modelled by its own group of variables and its own specification; the   *)
(* variables of the other groups are left unchanged by its actions:        *)
(*                                                                         *)
(*   SpecRange    the range operator and RangeList          (rg* variables)*)
(*   SpecThreads  the per-thread interpreter instance       (th* variables)*)
(*   SpecBounds   the runtime bounds (Timebox) hooks        (tb* variables)*)
(*   SpecEval     the tail of _eval, array constructors     (ev* variables)*)
(*   SpecGroup    group-by evaluation                       (gr* variables)*)
(*   SpecSig      signature parsing and validation          (sg* variables)*)
(*   SpecApply    function application and the trampoline   (ap* variables)*)
(*   SpecRegister the parser's symbol table                 (sy* variables)*)
(*   SpecParse    Parser.parse: Pratt engine, semantic pass (ps* variables)*)
(*   SpecFilter   evaluate_filter with a numeric predicate  (fl* variables)*)
(*   SpecBinary   numeric and comparison operators          (bi* variables)*)
(*   SpecBool     and / or and their short circuit          (bo* variables)*)
(*   SpecSort     the comparator of order-by                (cm* variables)*)
(*   SpecLambda   lambda application on frames              (lm* variables)*)
(*   SpecAst      the semantic pass on larger trees         (as* variables)*)
(*   SpecInput    an evaluation and the caller's document   (in* variables)*)
(***************************************************************************)
EXTENDS Integers, Sequences, FiniteSets, TLC

VARIABLES
    \* evaluate_range_expression / RangeList
    rgLhs, rgRhs, rgResult, rgPc, rgIter,
    \* eval / get_per_thread_instance / _eval, one entry per thread
    thPc, thSelf, thInst, thCalls,
    \* Jsonata.CURRENT (thread-local storage), Jsonata.MUTEX, the instances
    thCurrent, thMutex, thOrigin, thWriters,
    \* Timebox (max_depth, depth, whether the timeout has passed), the active _eval calls,
    \* Frame.is_parallel_call of the frames, and the exception raised
    tbMaxDepth, tbExpired, tbDepth, tbStack, tbParallel, tbError,
    \* _eval: the expression evaluated, the results of its step for the items
    \* of the input, the result before the final normalisation, the value returned
    evExpr, evItems, evRaw, evOut,
    \* apply / apply_inner: the procedure applied, its argument, the applications waiting for a nested one, the position in apply, the result
    apProc, apArg, apStack, apPc, apResult,
    \* evaluate_group_expression: the input sequence, the key/value pairs, the position in the two loops, groups, result, the keys evaluated so far, what was returned or raised, and what the evaluation before returned
    grInput, grPairs, grPc, grItem, grPair, grGroups, grIdx, grAcc, grKeys, grResult, grPrev,
    \* Signature: the signature string, the arguments, _params, the groups of the match, the loop variables of validate, validated_args, and what validate returned or raised
    sgSignature, sgArgs, sgParams, sgGroups, sgParam, sgArgIndex, sgIndex, sgValidated, sgPc, sgResult,
    \* Parser.symbol_table under register calls, and the registrations made so far
    syTable, syLog,
    \* Parser: recover, the source text, ancestor_label, ancestor_index, ancestry, errors, the errors met by the last parse, the tree expression(0) built, what parse returned or raised, what the parse before returned, the parse calls made
    psRecover, psSource, psLabel, psIndex, psAncestry, psErrors, psSeen, psRaw, psOut, psPrev, psCalls,
    \* evaluate_filter: the input, the predicate, what it returned or raised, whether it has run
    flInput, flPredicate, flResult, flPc,
    \* evaluate_numeric_expression and evaluate_comparison_expression: the operands, the operator, what was returned or raised, whether it has run
    biLhs, biRhs, biOp, biResult, biPc,
    \* evaluate_binary on and / or: the operator, the operand expressions, the value of the left one, the operands evaluated so far, the variables bound so far, the result, the position in the handler
    boOp, boLhsExpr, boRhsExpr, boLhs, boLog, boEnv, boResult, boPc,
    \* ComparatorWrapper.compare: the sort terms, the two items, compare(a, b), compare(b, a), whether it has run
    cmTerms, cmA, cmB, cmResult, cmReverse, cmPc,
    \* lambda application: the frames, the frames as they were before the application, the lambda expression, the arguments, the closure, the frame of the body, the value of the body, the result of apply_inner, the position
    lmFrames, lmBefore, lmExpr, lmArgs, lmProc, lmEnv, lmBody, lmResult, lmPc,
    \* Parser.parse from the tree expression(0) built: recover, that tree, what parse returns or raises, the ancestry after, whether it has run
    asRecover, asRaw, asOut, asAncestry, asPc,
    \* _eval on a document the caller holds
    inHeap, inDoc, inBefore, inWrapped, inExpr, inResult, inPc

rangeVars == <<rgLhs, rgRhs, rgResult, rgPc, rgIter>>
threadVars == <<thPc, thSelf, thInst, thCalls, thCurrent, thMutex, thOrigin, thWriters>>

boundsVars == <<tbMaxDepth, tbExpired, tbDepth, tbStack, tbParallel, tbError>>

evalVars == <<evExpr, evItems, evRaw, evOut>>

applyVars == <<apProc, apArg, apStack, apPc, apResult>>

groupVars == <<grInput, grPairs, grPc, grItem, grPair, grGroups, grIdx, grAcc, grKeys, grResult, grPrev>>

sigVars == <<sgSignature, sgArgs, sgParams, sgGroups, sgParam, sgArgIndex, sgIndex, sgValidated, sgPc, sgResult>>

symbolVars == <<syTable, syLog>>

parseVars == <<psRecover, psSource, psLabel, psIndex, psAncestry, psErrors, psSeen, psRaw, psOut, psPrev, psCalls>>

filterVars == <<flInput, flPredicate, flResult, flPc>>

binaryVars == <<biLhs, biRhs, biOp, biResult, biPc>>

boolVars == <<boOp, boLhsExpr, boRhsExpr, boLhs, boLog, boEnv, boResult, boPc>>

sortVars == <<cmTerms, cmA, cmB, cmResult, cmReverse, cmPc>>

lambdaVars == <<lmFrames, lmBefore, lmExpr, lmArgs, lmProc, lmEnv, lmBody, lmResult, lmPc>>

astVars == <<asRecover, asRaw, asOut, asAncestry, asPc>>

inputVars == <<inHeap, inDoc, inBefore, inWrapped, inExpr, inResult, inPc>>

vars == <<rangeVars, threadVars, boundsVars, evalVars, applyVars, groupVars, sigVars, symbolVars, parseVars, filterVars, binaryVars, boolVars, sortVars, lambdaVars, astVars, inputVars>>

(***************************************************************************)
(* Python values.  A value is a record tagged with its Python type.        *)
(***************************************************************************)
PyNone == [t |-> "none"]
PyInt(n) == [t |-> "int", v |-> n]
PyFloat(n) == [t |-> "float", v |-> n]
PyBool(b) == [t |-> "bool", v |-> b]
PyStr(s) == [t |-> "str", v |-> s]
PyList(s) == [t |-> "list", v |-> s]
PyDict(f) == [t |-> "dict", v |-> f]
Raise(code) == [t |-> "raise", code |-> code]

IsRaise(x) == x.t = "raise"

Min(a, b) == IF a < b THEN a ELSE b

(***************************************************************************)
(* The per-thread interpreter instance                                     *)
(***************************************************************************)
\* Threads calling eval, interpreter instances built by the callers, and the
\* number of eval calls a thread makes.
NThreads == 2
NInstances == 2
MaxCalls == 2

Threads == 1 .. NThreads
\* Jsonata objects: the callers' instances, then the copies made by copy.copy
Originals == 1 .. NInstances
Objects == 1 .. (NInstances + NThreads)
NoObject == 0

\* CURRENT = threading.local(): an attribute of CURRENT is looked up in the
\* storage of the running thread
CurrentSlotShared(t) == 1
CurrentSlot(t) == t

ThreadsIdle ==
    /\ thPc = [t \in Threads |-> "off"]
    /\ thSelf = [t \in Threads |-> NoObject]
    /\ thInst = [t \in Threads |-> NoObject]
    /\ thCalls = [t \in Threads |-> 0]
    /\ thCurrent = [k \in Threads |-> NoObject]
    /\ thMutex = 0
    /\ thOrigin = <<>>
    /\ thWriters = [o \in Objects |-> {}]

(***************************************************************************)
(* Runtime bounds: Timebox and the evaluation hooks                        *)
(***************************************************************************)
\* Nesting of _eval calls followed, the configured depth limits, and how far
\* below zero the depth counter is followed.
MaxNest == 3
MaxDepthCfg == 2
MaxUnder == 1

\* The frame the bounds are installed on; frames made by create_frame are
\* numbered after it.
RootFrame == 1
Frames == 1 .. (MaxNest + 1)

NoError == [code |-> "none", at |-> "none"]

BoundsIdle ==
    /\ tbExpired = FALSE
    /\ tbMaxDepth = 0
    /\ tbDepth = 0
    /\ tbStack = <<>>
    /\ tbParallel = [f \in Frames |-> FALSE]
    /\ tbError = [code |-> "off", at |-> "none"]

(***************************************************************************)
(* Sequences (JList) and the tail of _eval                                 *)
(***************************************************************************)
\* Items of the input a path step is evaluated against.
MaxItems == 2

\* JList(c): a list carrying the evaluator's flags, all off
JList(c) ==
    [t |-> "jlist", v |-> c, sequence |-> FALSE, outer_wrapper |-> FALSE,
     tuple_stream |-> FALSE, keep_singleton |-> FALSE, cons |-> FALSE]

\* isinstance(x, list) and isinstance(x, JList)
IsList(x) == x.t \in {"list", "jlist"}
IsJList(x) == x.t = "jlist"

\* Utils.create_sequence() and Utils.create_sequence(el)
EmptySequence == [JList(<<>>) EXCEPT !.sequence = TRUE]
create_sequence(el) ==
    IF IsList(el) /\ Len(el.v) = 1
    THEN [JList(el.v) EXCEPT !.sequence = TRUE]
    ELSE [JList(<<el>>) EXCEPT !.sequence = TRUE]
create_sequence_from_iter(it) == [JList(it) EXCEPT !.sequence = TRUE]

is_sequence(result) == IsJList(result) /\ result.sequence

NoExpr ==
    [type |-> "none", value |-> "", keep_array |-> FALSE,
     keep_singleton_array |-> FALSE, tuple |-> FALSE, index |-> FALSE]

EvalIdle ==
    /\ evExpr = NoExpr
    /\ evItems = <<>>
    /\ evRaw = PyNone
    /\ evOut = PyNone

(***************************************************************************)
(* Procedures and their application                                        *)
(***************************************************************************)
\* Largest argument of the recursive functions applied.
MaxArg == 4

NoProc == [type |-> "none", body |-> "none"]
Unbound == [t |-> "unbound"]

ApplyIdle ==
    /\ apProc = NoProc
    /\ apArg = 0
    /\ apStack = <<>>
    /\ apPc = "off"
    /\ apResult = Unbound

(***************************************************************************)
(* Group-by                                                                *)
(***************************************************************************)
\* Items of the input sequence that is grouped.
MaxGroupItems == 3

GroupIdle ==
    /\ grInput = <<>>
    /\ grPairs = [n |-> 0, value |-> "none"]
    /\ grPc = "off"
    /\ grItem = 0
    /\ grPair = 0
    /\ grGroups = <<>>
    /\ grIdx = 0
    /\ grAcc = <<>>
    /\ grKeys = <<>>
    /\ grResult = [t |-> "unbound"]
    /\ grPrev = [t |-> "unbound"]

(***************************************************************************)
(* Signatures                                                              *)
(***************************************************************************)
\* Arguments passed to a function.
MaxArgs == 2

SigIdle ==
    /\ sgSignature = <<>>
    /\ sgArgs = <<>>
    /\ sgParams = <<>>
    /\ sgGroups = <<>>
    /\ sgParam = 0
    /\ sgArgIndex = 0
    /\ sgIndex = 0
    /\ sgValidated = <<>>
    /\ sgPc = "off"
    /\ sgResult = [t |-> "unbound"]

(***************************************************************************)
(* The parser: symbol table, Pratt engine, semantic pass                   *)
(***************************************************************************)
SymbolIdle ==
    /\ syTable = <<>>
    /\ syLog = <<>>

ParseIdle ==
    /\ psRecover = FALSE
    /\ psSource = <<>>
    /\ psLabel = 0
    /\ psIndex = 0
    /\ psAncestry = <<>>
    /\ psErrors = <<>>
    /\ psSeen = <<>>
    /\ psRaw = [t |-> "unbound"]
    /\ psOut = [t |-> "unbound"]
    /\ psPrev = [t |-> "unbound"]
    /\ psCalls = 0

FilterIdle ==
    /\ flInput = [t |-> "unbound"]
    /\ flPredicate = [t |-> "unbound"]
    /\ flResult = [t |-> "unbound"]
    /\ flPc = "off"

BinaryIdle ==
    /\ biLhs = [t |-> "unbound"]
    /\ biRhs = [t |-> "unbound"]
    /\ biOp = ""
    /\ biResult = [t |-> "unbound"]
    /\ biPc = "off"

BoolIdle ==
    /\ boOp = ""
    /\ boLhsExpr = [t |-> "unbound"]
    /\ boRhsExpr = [t |-> "unbound"]
    /\ boLhs = [t |-> "unbound"]
    /\ boLog = <<>>
    /\ boEnv = {}
    /\ boResult = [t |-> "unbound"]
    /\ boPc = "off"

SortIdle ==
    /\ cmTerms = <<>>
    /\ cmA = <<>>
    /\ cmB = <<>>
    /\ cmResult = [t |-> "unbound"]
    /\ cmReverse = [t |-> "unbound"]
    /\ cmPc = "off"

LambdaIdle ==
    /\ lmFrames = <<>>
    /\ lmBefore = <<>>
    /\ lmExpr = [t |-> "unbound"]
    /\ lmArgs = <<>>
    /\ lmProc = [t |-> "unbound"]
    /\ lmEnv = 0
    /\ lmBody = [t |-> "unbound"]
    /\ lmResult = [t |-> "unbound"]
    /\ lmPc = "off"

AstIdle ==
    /\ asRecover = FALSE
    /\ asRaw = [t |-> "unbound"]
    /\ asOut = [t |-> "unbound"]
    /\ asAncestry = <<>>
    /\ asPc = "off"

InputIdle ==
    /\ inHeap = <<>>
    /\ inDoc = PyNone
    /\ inBefore = PyNone
    /\ inWrapped = FALSE
    /\ inExpr = "none"
    /\ inResult = PyNone
    /\ inPc = "idle"

(***************************************************************************)
(* RangeList and the range operator                                        *)
(***************************************************************************)
\* Ends of the modelled ranges: 0 .. MaxEnd, and the same offsets around the cap.
MaxEnd == 3
\* Number of elements an iteration of a range is followed for.
MaxIter == 6
\* The size limit of a range: "if size > 1e7".
RangeCap == 10000000

\* RangeList.__init__
RangeList(left, right) ==
    [t |-> "RangeList", a |-> left, b |-> right, size |-> right - left + 1]

\* RangeList.__len__
RangeLen(r) == r.size

\* Utils.convert_number on an int: the int itself
convert_number(n) == n

\* RangeList.__getitem__
RangeGetItem(r, index) ==
    IF index < r.size THEN PyInt(convert_number(r.a + index)) ELSE Raise("IndexError")

\* RangeList.__iter__: iter(range(self.a, self.b)); the iterator is its next element
RangeIterStart(r) == r.a
RangeIterHasNext(r, cur) == cur < r.b

\* evaluate_range_expression with the size taken as rhs - lhs (an off-by-one limit)
evaluate_range_expression_offbyone(lhs, rhs) ==
    IF lhs.t # "none" /\ (lhs.t = "bool" \/ lhs.t # "int") THEN Raise("T2003")
    ELSE IF rhs.t # "none" /\ (rhs.t = "bool" \/ rhs.t # "int") THEN Raise("T2004")
    ELSE IF rhs.t = "none" \/ lhs.t = "none" THEN PyNone
    ELSE IF lhs.v > rhs.v THEN PyNone
    ELSE IF rhs.v - lhs.v > RangeCap THEN Raise("D2014")
    ELSE RangeList(lhs.v, rhs.v + 1)

\* Jsonata.evaluate_range_expression
evaluate_range_expression(lhs, rhs) ==
    IF lhs.t # "none" /\ (lhs.t = "bool" \/ lhs.t # "int") THEN Raise("T2003")
    ELSE IF rhs.t # "none" /\ (rhs.t = "bool" \/ rhs.t # "int") THEN Raise("T2004")
    ELSE IF rhs.t = "none" \/ lhs.t = "none" THEN PyNone
    ELSE IF lhs.v > rhs.v THEN PyNone
    ELSE IF rhs.v - lhs.v + 1 > RangeCap THEN Raise("D2014")
    ELSE RangeList(lhs.v, rhs.v + 1)

RangeEnds == (0 .. MaxEnd) \cup {RangeCap - 1 + d : d \in 0 .. MaxEnd}
RangeOperands ==
    {PyInt(n) : n \in RangeEnds} \cup {PyNone, PyBool(TRUE), PyStr("x"), PyFloat(1)}

RangeIdle ==
    /\ rgLhs = PyNone
    /\ rgRhs = PyNone
    /\ rgResult = PyNone
    /\ rgPc = "off"
    /\ rgIter = <<>>

RangeInit ==
    /\ rgLhs \in RangeOperands
    /\ rgRhs \in RangeOperands
    /\ rgResult = PyNone
    /\ rgPc = "start"
    /\ rgIter = <<>>

\* evaluate_binary, op = "..": result = self.evaluate_range_expression(lhs, rhs)
EvaluateRange ==
    /\ rgPc = "start"
    /\ rgResult' = evaluate_range_expression(rgLhs, rgRhs)
    /\ rgPc' = IF rgResult'.t = "RangeList" THEN "iterating" ELSE "done"
    /\ UNCHANGED <<rgLhs, rgRhs, rgIter>>
    /\ UNCHANGED <<threadVars, boundsVars, evalVars, applyVars, groupVars, sigVars, symbolVars, parseVars, filterVars, binaryVars, boolVars, sortVars, lambdaVars, astVars, inputVars>>

\* for x in result: one step of the iterator of RangeList.__iter__
RangeIterNext ==
    /\ rgPc = "iterating"
    /\ Len(rgIter) < MaxIter
    /\ RangeIterHasNext(rgResult, RangeIterStart(rgResult) + Len(rgIter))
    /\ rgIter' = Append(rgIter, RangeIterStart(rgResult) + Len(rgIter))
    /\ UNCHANGED <<rgLhs, rgRhs, rgResult, rgPc>>
    /\ UNCHANGED <<threadVars, boundsVars, evalVars, applyVars, groupVars, sigVars, symbolVars, parseVars, filterVars, binaryVars, boolVars, sortVars, lambdaVars, astVars, inputVars>>

\* the iterator is exhausted
RangeIterStop ==
    /\ rgPc = "iterating"
    /\ ~RangeIterHasNext(rgResult, RangeIterStart(rgResult) + Len(rgIter))
    /\ rgPc' = "done"
    /\ UNCHANGED <<rgLhs, rgRhs, rgResult, rgIter>>
    /\ UNCHANGED <<threadVars, boundsVars, evalVars, applyVars, groupVars, sigVars, symbolVars, parseVars, filterVars, binaryVars, boolVars, sortVars, lambdaVars, astVars, inputVars>>

RangeNext == EvaluateRange \/ RangeIterNext \/ RangeIterStop

InitRange == RangeInit /\ ThreadsIdle /\ BoundsIdle /\ EvalIdle /\ ApplyIdle /\ GroupIdle /\ SigIdle /\ SymbolIdle /\ ParseIdle /\ FilterIdle /\ BinaryIdle /\ BoolIdle /\ SortIdle /\ LambdaIdle /\ AstIdle /\ InputIdle

SpecRange == InitRange /\ [][RangeNext]_vars

RangeBothInt == rgLhs.t = "int" /\ rgRhs.t = "int"

\* C4: for integer operands lhs..rhs is absent when lhs > rhs, and otherwise the
\* sequence lhs, lhs+1, ..., rhs: its length is rhs-lhs+1, its i-th indexed
\* element is lhs+i and its iteration yields exactly those elements.
C4_RangeIsTheSequence ==
    (rgPc = "done" /\ RangeBothInt /\ rgRhs.v - rgLhs.v + 1 <= Min(MaxIter, RangeCap)) =>
        IF rgLhs.v > rgRhs.v
        THEN rgResult = PyNone
        ELSE /\ rgResult.t = "RangeList"
             /\ RangeLen(rgResult) = rgRhs.v - rgLhs.v + 1
             /\ \A i \in 0 .. (rgRhs.v - rgLhs.v) :
                    RangeGetItem(rgResult, i) = PyInt(rgLhs.v + i)
             /\ rgIter = [i \in 1 .. (rgRhs.v - rgLhs.v + 1) |-> rgLhs.v + i - 1]

\* C5: with integer ends, a range of more than RangeCap elements raises D2014
\* and yields no value; a range of at most RangeCap elements never raises it.
C5_RangeCapRaises ==
    rgPc # "start" =>
        ((RangeBothInt /\ rgRhs.v - rgLhs.v + 1 > RangeCap) <=> (rgResult = Raise("D2014")))

C5_Witness ==
    /\ rgPc = "done"
    /\ RangeBothInt
    /\ rgRhs.v - rgLhs.v + 1 = RangeCap + 1
    /\ rgResult = Raise("D2014")

(***************************************************************************)
(* eval on a per-thread instance                                           *)
(***************************************************************************)
ThreadsInit ==
    /\ thPc = [t \in Threads |-> "idle"]
    /\ thSelf = [t \in Threads |-> NoObject]
    /\ thInst = [t \in Threads |-> NoObject]
    /\ thCalls = [t \in Threads |-> 0]
    /\ thCurrent = [k \in Threads |-> NoObject]
    /\ thMutex = 0
    /\ thOrigin = <<>>
    /\ thWriters = [o \in Objects |-> {}]

\* hasattr(Jsonata.CURRENT, "jsonata") in thread t
HasCurrent(t) == thCurrent[CurrentSlot(t)] # NoObject

\* A thread calls eval on one of the callers' instances, or (the recursive
\* self.eval calls of the evaluator) on the instance it is evaluating on.
ThCall(t) ==
    /\ thPc[t] = "idle"
    /\ thCalls[t] < MaxCalls
    /\ \E j \in Originals \cup ({thInst[t]} \ {NoObject}) :
           thSelf' = [thSelf EXCEPT ![t] = j]
    /\ thCalls' = [thCalls EXCEPT ![t] = @ + 1]
    /\ thPc' = [thPc EXCEPT ![t] = "check1"]
    /\ UNCHANGED <<thInst, thCurrent, thMutex, thOrigin, thWriters>>
    /\ UNCHANGED <<rangeVars, boundsVars, evalVars, applyVars, groupVars, sigVars, symbolVars, parseVars, filterVars, binaryVars, boolVars, sortVars, lambdaVars, astVars, inputVars>>

\* get_per_thread_instance: if hasattr(CURRENT, "jsonata"): return CURRENT.jsonata
ThCheck(t) ==
    /\ thPc[t] = "check1"
    /\ IF HasCurrent(t)
       THEN /\ thInst' = [thInst EXCEPT ![t] = thCurrent[CurrentSlot(t)]]
            /\ thPc' = [thPc EXCEPT ![t] = "eval"]
       ELSE /\ thPc' = [thPc EXCEPT ![t] = "lock"]
            /\ UNCHANGED thInst
    /\ UNCHANGED <<thSelf, thCalls, thCurrent, thMutex, thOrigin, thWriters>>
    /\ UNCHANGED <<rangeVars, boundsVars, evalVars, applyVars, groupVars, sigVars, symbolVars, parseVars, filterVars, binaryVars, boolVars, sortVars, lambdaVars, astVars, inputVars>>

\* with Jsonata.MUTEX: (acquire)
ThLock(t) ==
    /\ thPc[t] = "lock"
    /\ thMutex = 0
    /\ thMutex' = t
    /\ thPc' = [thPc EXCEPT ![t] = "locked"]
    /\ UNCHANGED <<thSelf, thInst, thCalls, thCurrent, thOrigin, thWriters>>
    /\ UNCHANGED <<rangeVars, boundsVars, evalVars, applyVars, groupVars, sigVars, symbolVars, parseVars, filterVars, binaryVars, boolVars, sortVars, lambdaVars, astVars, inputVars>>

\* the body of the with statement, and the release of the mutex
ThCreate(t) ==
    /\ thPc[t] = "locked"
    /\ thMutex = t
    /\ IF HasCurrent(t)
       THEN /\ thInst' = [thInst EXCEPT ![t] = thCurrent[CurrentSlot(t)]]
            /\ UNCHANGED <<thCurrent, thOrigin>>
       ELSE \* thread_inst = copy.copy(self); Jsonata.CURRENT.jsonata = thread_inst
            /\ thOrigin' = Append(thOrigin, thSelf[t])
            /\ thInst' = [thInst EXCEPT ![t] = NInstances + Len(thOrigin) + 1]
            /\ thCurrent' = [thCurrent EXCEPT ![CurrentSlot(t)] = NInstances + Len(thOrigin) + 1]
    /\ thMutex' = 0
    /\ thPc' = [thPc EXCEPT ![t] = "eval"]
    /\ UNCHANGED <<thSelf, thCalls, thWriters>>
    /\ UNCHANGED <<rangeVars, boundsVars, evalVars, applyVars, groupVars, sigVars, symbolVars, parseVars, filterVars, binaryVars, boolVars, sortVars, lambdaVars, astVars, inputVars>>

\* ._eval(expr, input_item, environment): self.input_item = input_item
ThEval(t) ==
    /\ thPc[t] = "eval"
    /\ thWriters' = [thWriters EXCEPT ![thInst[t]] = @ \cup {t}]
    /\ thPc' = [thPc EXCEPT ![t] = "idle"]
    /\ thSelf' = [thSelf EXCEPT ![t] = NoObject]
    /\ UNCHANGED <<thInst, thCalls, thCurrent, thMutex, thOrigin>>
    /\ UNCHANGED <<rangeVars, boundsVars, evalVars, applyVars, groupVars, sigVars, symbolVars, parseVars, filterVars, binaryVars, boolVars, sortVars, lambdaVars, astVars, inputVars>>

ThreadsNext == \E t \in Threads : ThCall(t) \/ ThCheck(t) \/ ThLock(t) \/ ThCreate(t) \/ ThEval(t)

InitThreads == ThreadsInit /\ RangeIdle /\ BoundsIdle /\ EvalIdle /\ ApplyIdle /\ GroupIdle /\ SigIdle /\ SymbolIdle /\ ParseIdle /\ FilterIdle /\ BinaryIdle /\ BoolIdle /\ SortIdle /\ LambdaIdle /\ AstIdle /\ InputIdle

SpecThreads == InitThreads /\ [][ThreadsNext]_vars

\* C2: an instance whose current-input slot is written by _eval in one thread
\* is never written by _eval in another thread, and the callers' instances,
\* on which eval is called, are never written.
C2_ThreadConfinedWrites ==
    /\ \A o \in Objects : Cardinality(thWriters[o]) <= 1
    /\ \A o \in Originals : thWriters[o] = {}

\* two threads have evaluated the same instance, each writing its own copy
C2_Witness ==
    \E t1, t2 \in Threads : \E o1, o2 \in Objects \ Originals :
        /\ t1 # t2 /\ o1 # o2
        /\ t1 \in thWriters[o1] /\ t2 \in thWriters[o2]
        /\ thOrigin[o1 - NInstances] = thOrigin[o2 - NInstances]

\* C16: eval called on an instance J runs _eval on a copy made of J itself,
\* never on a copy made of another instance the thread evaluated earlier.
C16_EvalOnCloneOfSelf ==
    \A t \in Threads :
        (thPc[t] = "eval" /\ thSelf[t] \in Originals) =>
            /\ thInst[t] \notin Originals
            /\ thOrigin[thInst[t] - NInstances] = thSelf[t]

(***************************************************************************)
(* _eval under runtime bounds                                              *)
(***************************************************************************)
\* Timebox.__init__ has run on the root frame: the hooks are bound, depth = 0
BoundsInit ==
    /\ tbMaxDepth \in 1 .. MaxDepthCfg
    /\ tbExpired = FALSE
    /\ tbDepth = 0
    /\ tbStack = <<>>
    /\ tbParallel = [f \in Frames |-> FALSE]
    /\ tbError = NoError

\* Timebox.check_runaway with the stack test off by one
check_runaway_late(depth, max_depth, expired) ==
    IF depth > max_depth + 1 THEN "StackOverflow"
    ELSE IF expired THEN "Timeout"
    ELSE "none"

\* Timebox.check_runaway: the exception it raises, if any; expired stands for
\* current_milli_time() - self.time > self.timeout
check_runaway(depth, max_depth, expired) ==
    IF depth > max_depth THEN "StackOverflow"
    ELSE IF expired THEN "Timeout"
    ELSE "none"

\* entry_callback / exit_callback of Timebox.__init__, called with a frame whose
\* is_parallel_call is parallel: the depth they leave and the exception they raise
Callback(parallel, delta, at) ==
    IF parallel
    THEN /\ tbDepth' = tbDepth
         /\ tbError' = NoError
    ELSE /\ tbDepth' = tbDepth + delta
         /\ tbError' = [code |-> check_runaway(tbDepth', tbMaxDepth, tbExpired),
                        at |-> IF check_runaway(tbDepth', tbMaxDepth, tbExpired) = "none"
                               THEN "none" ELSE at]

TopFrame == IF tbStack = <<>> THEN RootFrame ELSE tbStack[Len(tbStack)].env
\* Frame(enclosing_environment): a new frame, is_parallel_call = False
NewFrame ==
    CHOOSE f \in Frames :
        /\ f # RootFrame
        /\ \A i \in 1 .. Len(tbStack) : tbStack[i].env < f
        /\ \A g \in 2 .. (f - 1) : \E j \in 1 .. Len(tbStack) : tbStack[j].env >= g

\* The frames still referenced by an active call keep their flag; the others
\* are gone.
LiveFlags(flags, stack) ==
    [f \in Frames |->
        IF f = RootFrame \/ \E i \in 1 .. Len(stack) : stack[i].env = f
        THEN flags[f] ELSE FALSE]

Running == tbError = NoError

\* self.eval(expr, input, environment) in the caller's environment: the entry
\* hook of _eval
TbEnter ==
    /\ Running
    /\ Len(tbStack) < MaxNest
    /\ tbStack' = Append(tbStack, [env |-> TopFrame, grouped |-> FALSE])
    /\ tbParallel' = tbParallel
    /\ Callback(tbParallel[TopFrame], 1, "entry")
    /\ UNCHANGED <<tbMaxDepth, tbExpired>>
    /\ UNCHANGED <<rangeVars, threadVars, evalVars, applyVars, groupVars, sigVars, symbolVars, parseVars, filterVars, binaryVars, boolVars, sortVars, lambdaVars, astVars, inputVars>>

\* self.eval(expr, input, frame) with frame = self.create_frame(environment)
\* (evaluate_block, apply_procedure, create_frame_from_tuple)
TbEnterNewFrame ==
    /\ Running
    /\ Len(tbStack) < MaxNest
    /\ tbStack' = Append(tbStack, [env |-> NewFrame, grouped |-> FALSE])
    /\ tbParallel' = [tbParallel EXCEPT ![NewFrame] = FALSE]
    /\ Callback(FALSE, 1, "entry")
    /\ UNCHANGED <<tbMaxDepth, tbExpired>>
    /\ UNCHANGED <<rangeVars, threadVars, evalVars, applyVars, groupVars, sigVars, symbolVars, parseVars, filterVars, binaryVars, boolVars, sortVars, lambdaVars, astVars, inputVars>>

\* evaluate_group_expression, one value: env.is_parallel_call = idx > 0, then
\* self.eval(value expression, context, env) with env = environment; grouped
\* tells whether the call has evaluated a value before (idx > 0)
TbGroupValue ==
    /\ Running
    /\ tbStack # <<>>
    /\ Len(tbStack) < MaxNest
    /\ tbParallel' = [tbParallel EXCEPT ![TopFrame] = tbStack[Len(tbStack)].grouped]
    /\ tbStack' = Append([tbStack EXCEPT ![Len(tbStack)].grouped = TRUE],
                         [env |-> TopFrame, grouped |-> FALSE])
    /\ Callback(tbStack[Len(tbStack)].grouped, 1, "entry")
    /\ UNCHANGED <<tbMaxDepth, tbExpired>>
    /\ UNCHANGED <<rangeVars, threadVars, evalVars, applyVars, groupVars, sigVars, symbolVars, parseVars, filterVars, binaryVars, boolVars, sortVars, lambdaVars, astVars, inputVars>>

\* the exit hook of _eval, and its return
TbExit ==
    /\ Running
    /\ tbStack # <<>>
    /\ tbDepth > -MaxUnder
    /\ tbStack' = SubSeq(tbStack, 1, Len(tbStack) - 1)
    /\ tbParallel' = LiveFlags(tbParallel, tbStack')
    /\ Callback(tbParallel[TopFrame], -1, "exit")
    /\ UNCHANGED <<tbMaxDepth, tbExpired>>
    /\ UNCHANGED <<rangeVars, threadVars, evalVars, applyVars, groupVars, sigVars, symbolVars, parseVars, filterVars, binaryVars, boolVars, sortVars, lambdaVars, astVars, inputVars>>

\* time passes: current_milli_time() - self.time comes to exceed self.timeout
TbTick ==
    /\ Running
    /\ ~tbExpired
    /\ tbExpired' = TRUE
    /\ UNCHANGED <<tbMaxDepth, tbDepth, tbStack, tbParallel, tbError>>
    /\ UNCHANGED <<rangeVars, threadVars, evalVars, applyVars, groupVars, sigVars, symbolVars, parseVars, filterVars, binaryVars, boolVars, sortVars, lambdaVars, astVars, inputVars>>

BoundsNext == TbEnter \/ TbEnterNewFrame \/ TbGroupValue \/ TbExit \/ TbTick

InitBounds == BoundsInit /\ RangeIdle /\ ThreadsIdle /\ EvalIdle /\ ApplyIdle /\ GroupIdle /\ SigIdle /\ SymbolIdle /\ ParseIdle /\ FilterIdle /\ BinaryIdle /\ BoolIdle /\ SortIdle /\ LambdaIdle /\ AstIdle /\ InputIdle

SpecBounds == InitBounds /\ [][BoundsNext]_vars

\* C3: the evaluation is aborted with the stack-depth error at the very entry
\* that makes the depth counter exceed max_depth; no evaluation runs on while
\* the counter is above max_depth.
C3_DepthLimitAtEntry ==
    tbDepth > tbMaxDepth =>
        /\ tbError = [code |-> "StackOverflow", at |-> "entry"]
        /\ tbDepth = tbMaxDepth + 1

C3_Witness ==
    /\ tbError = [code |-> "StackOverflow", at |-> "entry"]
    /\ tbDepth = tbMaxDepth + 1
    /\ Len(tbStack) = tbMaxDepth + 1
    /\ tbExpired

\* C17: the entry and exit hooks of an evaluation agree on whether it is
\* counted: while no exception is raised the depth counter is never negative,
\* and it is 0 whenever no evaluation is active.
C17_HooksBalanced ==
    Running =>
        /\ tbDepth >= 0
        /\ tbStack = <<>> => tbDepth = 0

\* C27: every evaluation entry and every evaluation exit checks the elapsed
\* time and the depth, those of 'parallel' evaluations included: once the
\* elapsed time exceeds the timeout, the very next entry or exit raises, and
\* what it raises is the timeout error unless the depth is over max_depth.
C27_EveryEntryAndExitIsACheckpoint ==
    [][(tbExpired /\ tbStack' # tbStack) =>
          /\ tbError' # NoError
          /\ tbDepth' <= tbMaxDepth => tbError'.code = "Timeout"]_vars

(***************************************************************************)
(* _eval: paths, variables, unary expressions, and the final normalisation *)
(***************************************************************************)
\* The values self.eval(step, item, environment) gives for one item of the
\* input: absent, a number, a string, or an array of the input document.
StepResults ==
    {PyNone, PyInt(1), PyStr("k"), PyList(<<PyInt(1)>>), PyList(<<PyInt(1), PyInt(2)>>)}

SeqUpTo(S, n) == UNION {[1 .. k -> S] : k \in 0 .. n}

\* the tail of _eval with the singleton test dropped
mangle_unwrap(result, keep_array) ==
    IF result.t # "none" /\ is_sequence(result) /\ ~result.tuple_stream
    THEN IF Len(result.v) = 0 THEN PyNone
         ELSE IF Len(result.v) = 1 THEN result.v[1]
         ELSE result
    ELSE result

\* the tail of _eval: "mangle result (list of 1 element -> 1 element, empty
\* list -> null)"
mangle(result, keep_array) ==
    IF result.t # "none" /\ is_sequence(result) /\ ~result.tuple_stream
    THEN LET flagged == IF keep_array THEN [result EXCEPT !.keep_singleton = TRUE]
                        ELSE result
         IN IF Len(flagged.v) = 0 THEN PyNone
            ELSE IF Len(flagged.v) = 1
                 THEN (IF flagged.keep_singleton THEN flagged ELSE flagged.v[1])
            ELSE flagged
    ELSE result

\* evaluate_step, "flatten the sequence"
RECURSIVE Flatten(_)
Flatten(result) ==
    IF result = <<>> THEN <<>>
    ELSE LET res == Head(result)
         IN (IF ~IsList(res) \/ (IsJList(res) /\ res.cons) THEN <<res>> ELSE res.v)
                \o Flatten(Tail(result))

\* evaluate_step for a step without stages; results are the values of
\* self.eval(expr, inp, environment) for the items inp of the input
evaluate_step(results, last_step) ==
    LET result == SelectSeq(results, LAMBDA res : res # PyNone)
    IN IF last_step /\ Len(result) = 1 /\ IsList(result[1]) /\ ~is_sequence(result[1])
       THEN result[1]
       ELSE [EmptySequence EXCEPT !.v = Flatten(result)]

\* evaluate_tuple_step, the tuples built from the results of a step with an
\* index variable (expr.index): {"@": item, index: bb}
RECURSIVE Tuples(_)
Tuples(results) ==
    IF results = <<>> THEN <<>>
    ELSE LET res == Head(results)
             items == IF res = PyNone THEN <<>>
                      ELSE IF IsList(res) THEN res.v ELSE <<res>>
         IN [bb \in 1 .. Len(items) |-> [at |-> items[bb], index |-> bb - 1]]
                \o Tuples(Tail(results))

evaluate_tuple_step(results) ==
    [EmptySequence EXCEPT !.tuple_stream = TRUE, !.v = Tuples(results)]

\* evaluate_path for a path of one step (no group)
evaluate_path(expr, results) ==
    LET is_tuple_stream == expr.index
        tuple_bindings == evaluate_tuple_step(results)
        result_sequence ==
            IF is_tuple_stream
            THEN IF expr.tuple THEN tuple_bindings
                 ELSE create_sequence_from_iter(
                        [b \in 1 .. Len(tuple_bindings.v) |-> tuple_bindings.v[b].at])
            ELSE evaluate_step(results, TRUE)
        as_jlist == IF IsJList(result_sequence) THEN result_sequence
                    ELSE JList(result_sequence.v)
        promoted == IF as_jlist.cons /\ ~as_jlist.sequence THEN create_sequence(as_jlist)
                    ELSE as_jlist
    IN IF expr.keep_singleton_array THEN [promoted EXCEPT !.keep_singleton = TRUE]
       ELSE result_sequence

\* evaluate_unary: the method only defines a nested function of the same name
\* and does not call it, so it returns None for "[", "{" and "-" alike
evaluate_unary(expr, items) == PyNone

evaluate_literal(expr) == expr.value

EvalInit ==
    /\ evExpr = [NoExpr EXCEPT !.type = "start"]
    /\ evItems = <<>>
    /\ evRaw = PyNone
    /\ evOut = PyNone

\* _eval of a path of one name step: a, a[], a#$i, a#$i[]
EvalPath ==
    \E results \in SeqUpTo(StepResults, MaxItems), keep \in BOOLEAN, index \in BOOLEAN, tuple \in BOOLEAN :
        /\ tuple => index
        /\ evExpr' = [NoExpr EXCEPT !.type = "path", !.keep_singleton_array = keep,
                                    !.keep_array = keep, !.index = index, !.tuple = tuple]
        /\ evItems' = results
        /\ evRaw' = evaluate_path(evExpr', results)
        /\ evOut' = mangle(evRaw', evExpr'.keep_array)
        /\ UNCHANGED <<rangeVars, threadVars, boundsVars, applyVars, groupVars, sigVars, symbolVars, parseVars, filterVars, binaryVars, boolVars, sortVars, lambdaVars, astVars, inputVars>>

\* _eval of a variable bound to the value returned last: $v, $v[]
EvalVariable ==
    \E keep \in BOOLEAN :
        /\ evExpr.type # "start"
        /\ evExpr' = [NoExpr EXCEPT !.type = "variable", !.value = "v", !.keep_array = keep]
        /\ evItems' = <<>>
        /\ evRaw' = evOut
        /\ evOut' = mangle(evRaw', evExpr'.keep_array)
        /\ UNCHANGED <<rangeVars, threadVars, boundsVars, applyVars, groupVars, sigVars, symbolVars, parseVars, filterVars, binaryVars, boolVars, sortVars, lambdaVars, astVars, inputVars>>

\* _eval of a unary expression with one operand or item of value x: [x], {..: x}, -x
EvalUnary ==
    \E value \in {"[", "{", "-"}, x \in {PyInt(1), PyStr("k"), PyList(<<PyInt(1)>>)} :
        /\ evExpr' = [NoExpr EXCEPT !.type = "unary", !.value = value]
        /\ evItems' = <<x>>
        /\ evRaw' = evaluate_unary(evExpr', evItems')
        /\ evOut' = mangle(evRaw', evExpr'.keep_array)
        /\ UNCHANGED <<rangeVars, threadVars, boundsVars, applyVars, groupVars, sigVars, symbolVars, parseVars, filterVars, binaryVars, boolVars, sortVars, lambdaVars, astVars, inputVars>>

\* _eval of a number or string literal
EvalLiteral ==
    \E x \in {PyInt(1), PyStr("k")} :
        /\ evExpr' = [NoExpr EXCEPT !.type = x.t, !.value = x]
        /\ evItems' = <<>>
        /\ evRaw' = evaluate_literal(evExpr')
        /\ evOut' = mangle(evRaw', evExpr'.keep_array)
        /\ UNCHANGED <<rangeVars, threadVars, boundsVars, applyVars, groupVars, sigVars, symbolVars, parseVars, filterVars, binaryVars, boolVars, sortVars, lambdaVars, astVars, inputVars>>

EvalNext == EvalPath \/ EvalVariable \/ EvalUnary \/ EvalLiteral

InitEval == EvalInit /\ RangeIdle /\ ThreadsIdle /\ BoundsIdle /\ ApplyIdle /\ GroupIdle /\ SigIdle /\ SymbolIdle /\ ParseIdle /\ FilterIdle /\ BinaryIdle /\ BoolIdle /\ SortIdle /\ LambdaIdle /\ AstIdle /\ InputIdle

SpecEval == InitEval /\ [][EvalNext]_vars

\* The result is a sequence and not a tuple stream when _eval reaches its tail
Normalised == evRaw.t # "none" /\ is_sequence(evRaw) /\ ~evRaw.tuple_stream
\* keepSingleton as _eval reads it: the flag of the sequence, set as well when
\* the expression is marked keep_array
KeepSingleton == evRaw.keep_singleton \/ evExpr.keep_array

\* C6: at the end of every evaluation a sequence that is not a tuple stream is
\* normalised: length 0 becomes absent; length 1 becomes its sole element
\* exactly when keepSingleton is not set, and stays a one-element sequence when
\* it is set; a longer sequence is returned with its items unchanged.
C6_Normalisation ==
    Normalised =>
        /\ Len(evRaw.v) = 0 => evOut = PyNone
        /\ (Len(evRaw.v) = 1 /\ ~KeepSingleton) => evOut = evRaw.v[1]
        /\ (Len(evRaw.v) = 1 /\ KeepSingleton) =>
                (is_sequence(evOut) /\ evOut.v = evRaw.v /\ evOut.keep_singleton)
        /\ Len(evRaw.v) > 1 => (is_sequence(evOut) /\ evOut.v = evRaw.v)

C6_Witness ==
    /\ Normalised
    /\ evExpr.type = "path"
    /\ Len(evRaw.v) = 1
    /\ KeepSingleton
    /\ evOut.t = "jlist"
    /\ evOut.v = <<PyInt(1)>>

\* C7: an array constructor with a single item, [x], where x evaluates to a
\* non-array value v, yields the one-element array [v]: never v, never absent.
C7_SingleItemArray ==
    (evExpr.type = "unary" /\ evExpr.value = "[" /\ Len(evItems) = 1 /\ ~IsList(evItems[1])) =>
        (IsList(evOut) /\ evOut.v = evItems)

(***************************************************************************)
(* apply, apply_inner, apply_procedure                                     *)
(***************************************************************************)
\* The procedures applied.  A lambda is the closure evaluate_lambda makes of
\*   tail  function($n){ $n = 0 ? 0 : $f($n - 1) }   (the call is a tail call)
\*   rec   function($n){ $n = 0 ? 0 : 1 + $f($n - 1) }
\*   arg   function($n){ $n }
\* the others are a JFunction, a JNativeFunction (a built-in), a JLambda, a
\* compiled regex and a value that is no function.
Procs ==
    {[type |-> "lambda", body |-> b] : b \in {"tail", "rec", "arg"}} \cup
    {[type |-> ty, body |-> "none"] :
        ty \in {"JFunction", "JNativeFunction", "JLambda", "Pattern", "number"}}

\* the closure of a tail call that tail_call_optimize wrapped: thunk = True
Thunk(n) == [t |-> "lambda", thunk |-> TRUE, arg |-> n]

\* Functions.is_lambda
is_lambda(x) == x.type = "lambda"
IsThunk(result) == result.t = "lambda" /\ result.thunk

\* isinstance(proc, JFunction): JNativeFunction extends JFunction
IsJFunction(proc) == proc.type \in {"JFunction", "JNativeFunction"}

ApplyInit ==
    /\ apProc = NoProc
    /\ apArg = 0
    /\ apStack = <<>>
    /\ apPc = "idle"
    /\ apResult = Unbound

\* evaluate_function: self.apply(proc, evaluated_args, input_item, environment),
\* which starts with apply_inner
ApCall ==
    /\ apPc \in {"idle", "done", "error"}
    /\ \E proc \in Procs, n \in 0 .. MaxArg :
        /\ apProc' = proc
        /\ apArg' = n
    /\ apStack' = <<>>
    /\ apPc' = "apply_inner"
    /\ apResult' = Unbound
    /\ UNCHANGED <<rangeVars, threadVars, boundsVars, evalVars, groupVars, sigVars, symbolVars, parseVars, filterVars, binaryVars, boolVars, sortVars, lambdaVars, astVars, inputVars>>

\* apply_inner, first chain: a lambda is run by apply_procedure, a JFunction by
\* proc.call.  The body of rec applies $f again before it returns.
ApFirstChain ==
    /\ apPc = "apply_inner"
    /\ IF is_lambda(apProc) /\ apProc.body = "rec" /\ apArg > 0
       THEN /\ apStack' = Append(apStack, apArg)
            /\ apArg' = apArg - 1
            /\ apPc' = "apply_inner"
            /\ apResult' = Unbound
       ELSE /\ apResult' =
                IF is_lambda(apProc)
                THEN IF apProc.body = "tail" /\ apArg > 0 THEN Thunk(apArg - 1)
                     ELSE IF apProc.body = "arg" THEN PyInt(apArg)
                     ELSE PyInt(0)
                ELSE IF IsJFunction(apProc) THEN PyInt(apArg)
                ELSE apResult
            /\ apPc' = "second"
            /\ UNCHANGED <<apArg, apStack>>
    /\ UNCHANGED apProc
    /\ UNCHANGED <<rangeVars, threadVars, boundsVars, evalVars, groupVars, sigVars, symbolVars, parseVars, filterVars, binaryVars, boolVars, sortVars, lambdaVars, astVars, inputVars>>

\* apply_inner, second chain, where called is what proc.call or the regex
\* match gives: a JLambda is called, a regex is matched, and every other proc
\* raises T1006
SecondChain(proc, called) ==
    IF proc.type = "JLambda" THEN called
    ELSE IF proc.type = "Pattern" THEN called
    ELSE Raise("T1006")

\* apply_inner after the first chain; no caller handles the exception
ApSecondChain ==
    /\ apPc = "second"
    /\ apResult' = SecondChain(apProc, IF apProc.type = "JLambda" THEN PyInt(apArg)
                                       ELSE PyList(<<>>))
    /\ apPc' = IF IsRaise(apResult') THEN "error" ELSE "returned"
    /\ apStack' = IF IsRaise(apResult') THEN <<>> ELSE apStack
    /\ UNCHANGED <<apProc, apArg>>
    /\ UNCHANGED <<rangeVars, threadVars, boundsVars, evalVars, groupVars, sigVars, symbolVars, parseVars, filterVars, binaryVars, boolVars, sortVars, lambdaVars, astVars, inputVars>>

\* apply, after apply_inner has returned: the trampoline loop applies a thunk
\* again; another result is returned, to the body of rec when one is waiting
ApReturn ==
    /\ apPc = "returned"
    /\ IF IsThunk(apResult) THEN
            /\ apArg' = apResult.arg
            /\ apPc' = "apply_inner"
            /\ UNCHANGED <<apStack, apResult>>
       ELSE IF apStack # <<>> THEN
            /\ apArg' = apStack[Len(apStack)]
            /\ apStack' = SubSeq(apStack, 1, Len(apStack) - 1)
            /\ apResult' = PyInt(1 + apResult.v)
            /\ apPc' = "second"
       ELSE /\ apPc' = "done"
            /\ UNCHANGED <<apArg, apStack, apResult>>
    /\ UNCHANGED apProc
    /\ UNCHANGED <<rangeVars, threadVars, boundsVars, evalVars, groupVars, sigVars, symbolVars, parseVars, filterVars, binaryVars, boolVars, sortVars, lambdaVars, astVars, inputVars>>

ApplyNext == ApCall \/ ApFirstChain \/ ApSecondChain \/ ApReturn

InitApply == ApplyInit /\ RangeIdle /\ ThreadsIdle /\ BoundsIdle /\ EvalIdle /\ GroupIdle /\ SigIdle /\ SymbolIdle /\ ParseIdle /\ FilterIdle /\ BinaryIdle /\ BoolIdle /\ SortIdle /\ LambdaIdle /\ AstIdle /\ InputIdle

SpecApply == InitApply /\ [][ApplyNext]_vars

\* C1: applying a tail-recursive lambda completes for every N with a result
\* that is not a thunk, and no application waits for a nested one meanwhile.
C1_TailRecursionCompletes ==
    (apProc = [type |-> "lambda", body |-> "tail"]) =>
        /\ apPc # "error"
        /\ Len(apStack) = 0
        /\ apPc = "done" => (apResult.t = "int")

(***************************************************************************)
(* evaluate_group_expression                                               *)
(***************************************************************************)
\* What the key expression of the first and of the second pair can give for
\* an item: a string, a number, or nothing.
KeyResults(pairIndex) ==
    IF pairIndex = 1 THEN {PyStr("k"), PyStr("j"), PyInt(1), PyNone}
    ELSE {PyStr("k"), PyNone}

\* An item of the input: an object, told apart by its place n in the input
\* and by what the key expressions give for it
Item(n, keys) == [t |-> "dict", n |-> n, keys |-> keys]

GroupInputs(npairs) ==
    UNION {{[i \in 1 .. len |-> Item(i, ks[i])] :
                ks \in [1 .. len -> {k \in [1 .. npairs -> KeyResults(1)] :
                                        \A p \in 1 .. npairs : k[p] \in KeyResults(p)}]} :
           len \in 0 .. MaxGroupItems}

\* GroupEntry(data, exprIndex)
GroupEntry(key, data, exprIndex) == [key |-> key, data |-> data, exprIndex |-> exprIndex]

\* groups.get(key): the place of the entry of key, 0 when there is none
GroupsGet(groups, key) ==
    IF \E g \in 1 .. Len(groups) : groups[g].key = key
    THEN CHOOSE g \in 1 .. Len(groups) : groups[g].key = key
    ELSE 0

\* Functions.append(arg1, arg2) for arguments that are present, arg2 an object
append(arg1, arg2) ==
    IF IsList(arg1) THEN JList(arg1.v \o <<arg2>>) ELSE JList(<<arg1, arg2>>)

\* the dict groups, as against an exception raised
Groups(groups) == [t |-> "groups", v |-> groups]

\* the loop body for one key with the test of exprIndex left out
group_key_merging(groups, key, item, pairIndex) ==
    IF key # PyNone /\ key.t # "str" THEN Raise("T1003")
    ELSE IF key = PyNone THEN Groups(groups)
    ELSE IF GroupsGet(groups, key) # 0
         THEN Groups([groups EXCEPT ![GroupsGet(groups, key)].data = append(@, item)])
         ELSE Groups(Append(groups, GroupEntry(key, item, pairIndex)))

\* evaluate_group_expression, the body of the loop over the pairs for one key:
\* the groups afterwards, or the exception raised
group_key(groups, key, item, pairIndex) ==
    IF key # PyNone /\ key.t # "str" THEN Raise("T1003")
    ELSE IF key = PyNone THEN Groups(groups)
    ELSE IF GroupsGet(groups, key) # 0
         THEN IF groups[GroupsGet(groups, key)].exprIndex # pairIndex
              THEN Raise("D1009")
              ELSE Groups([groups EXCEPT ![GroupsGet(groups, key)].data = append(@, item)])
         ELSE Groups(Append(groups, GroupEntry(key, item, pairIndex)))

\* self.eval(value expression, context, env) for the value expressions $ (the
\* context) and $count($): the latter applies the built-in through apply_inner
group_value(value, context) ==
    IF value = "context" THEN mangle(context, FALSE)
    ELSE SecondChain([type |-> "JNativeFunction", body |-> "none"],
                     PyInt(IF IsList(context) THEN Len(context.v) ELSE 1))

GroupInit ==
    /\ grInput = <<>>
    /\ grPairs = [n |-> 0, value |-> "none"]
    /\ grPc = "idle"
    /\ grItem = 0
    /\ grPair = 0
    /\ grGroups = <<>>
    /\ grIdx = 0
    /\ grAcc = <<>>
    /\ grKeys = <<>>
    /\ grResult = Unbound
    /\ grPrev = Unbound

\* the start of evaluate_group_expression: an empty input gets an undefined
\* entry appended
GroupStart(input, pairs) ==
    /\ grInput' = IF input = <<>> THEN <<PyNone>> ELSE input
    /\ grPairs' = pairs
    /\ grPc' = "keys"
    /\ grItem' = 1
    /\ grPair' = 1
    /\ grGroups' = <<>>
    /\ grIdx' = 1
    /\ grAcc' = <<>>
    /\ grKeys' = <<>>
    /\ grResult' = Unbound

\* evaluate_group_expression(expr, input_item, environment) is called
GrCall ==
    /\ grPc = "idle"
    /\ \E npairs \in 1 .. 2, value \in {"context", "count"} :
        \E input \in GroupInputs(npairs) :
            GroupStart(input, [n |-> npairs, value |-> value])
    /\ grPrev' = Unbound
    /\ UNCHANGED <<rangeVars, threadVars, boundsVars, evalVars, applyVars, sigVars, symbolVars, parseVars, filterVars, binaryVars, boolVars, sortVars, lambdaVars, astVars, inputVars>>

\* the same expression is evaluated again on the same input
GrRepeat ==
    /\ grPc = "done"
    /\ grPrev = Unbound
    /\ GroupStart(grInput, grPairs)
    /\ grPrev' = grResult
    /\ UNCHANGED <<rangeVars, threadVars, boundsVars, evalVars, applyVars, sigVars, symbolVars, parseVars, filterVars, binaryVars, boolVars, sortVars, lambdaVars, astVars, inputVars>>

\* one key: key = self.eval(pair[0], item, env) and the rest of the loop body
GrKey ==
    /\ grPc = "keys"
    /\ LET item == grInput[grItem]
           key == IF item = PyNone THEN PyNone ELSE item.keys[grPair]
           after == group_key(grGroups, key, item, grPair)
           last == grItem = Len(grInput) /\ grPair = grPairs.n
       IN /\ grKeys' = Append(grKeys, [item |-> grItem, pair |-> grPair, key |-> key])
          /\ IF IsRaise(after)
             THEN /\ grResult' = after
                  /\ grPc' = "error"
                  /\ UNCHANGED <<grGroups, grItem, grPair>>
             ELSE /\ grGroups' = after.v
                  /\ grPc' = IF last THEN "values" ELSE "keys"
                  /\ grPair' = IF grPair = grPairs.n THEN 1 ELSE grPair + 1
                  /\ grItem' = IF grPair = grPairs.n /\ ~last THEN grItem + 1 ELSE grItem
                  /\ UNCHANGED grResult
    /\ UNCHANGED <<grInput, grPairs, grIdx, grAcc, grPrev>>
    /\ UNCHANGED <<rangeVars, threadVars, boundsVars, evalVars, applyVars, sigVars, symbolVars, parseVars, filterVars, binaryVars, boolVars, sortVars, lambdaVars, astVars, inputVars>>

\* one group: res = self.eval(value expression, entry.data, env); after the
\* last group the result object is returned
GrValue ==
    /\ grPc = "values"
    /\ IF grIdx > Len(grGroups)
       THEN /\ grResult' = PyDict(grAcc)
            /\ grPc' = "done"
            /\ UNCHANGED <<grIdx, grAcc>>
       ELSE LET res == group_value(grPairs.value, grGroups[grIdx].data)
            IN IF IsRaise(res)
               THEN /\ grResult' = res
                    /\ grPc' = "error"
                    /\ UNCHANGED <<grIdx, grAcc>>
               ELSE /\ grAcc' = IF res # PyNone
                                THEN Append(grAcc, [key |-> grGroups[grIdx].key, value |-> res])
                                ELSE grAcc
                    /\ grIdx' = grIdx + 1
                    /\ UNCHANGED <<grResult, grPc>>
    /\ UNCHANGED <<grInput, grPairs, grItem, grPair, grGroups, grKeys, grPrev>>
    /\ UNCHANGED <<rangeVars, threadVars, boundsVars, evalVars, applyVars, sigVars, symbolVars, parseVars, filterVars, binaryVars, boolVars, sortVars, lambdaVars, astVars, inputVars>>

\* the caller has the result, or the exception; the next evaluation is a new one
GrReturn ==
    /\ grPc \in {"done", "error"}
    /\ grInput' = <<>>
    /\ grPairs' = [n |-> 0, value |-> "none"]
    /\ grPc' = "idle"
    /\ grItem' = 0
    /\ grPair' = 0
    /\ grGroups' = <<>>
    /\ grIdx' = 0
    /\ grAcc' = <<>>
    /\ grKeys' = <<>>
    /\ grResult' = Unbound
    /\ grPrev' = Unbound
    /\ UNCHANGED <<rangeVars, threadVars, boundsVars, evalVars, applyVars, sigVars, symbolVars, parseVars, filterVars, binaryVars, boolVars, sortVars, lambdaVars, astVars, inputVars>>

GroupNext == GrCall \/ GrRepeat \/ GrKey \/ GrValue \/ GrReturn

InitGroup == GroupInit /\ RangeIdle /\ ThreadsIdle /\ BoundsIdle /\ EvalIdle /\ ApplyIdle /\ SigIdle /\ SymbolIdle /\ ParseIdle /\ FilterIdle /\ BinaryIdle /\ BoolIdle /\ SortIdle /\ LambdaIdle /\ AstIdle /\ InputIdle

SpecGroup == InitGroup /\ [][GroupNext]_vars

\* The keys evaluated so far
KeyAt(h) == grKeys[h].key
\* two different key expressions have given the same string key
Collision ==
    \E h1, h2 \in 1 .. Len(grKeys) :
        /\ KeyAt(h1).t = "str"
        /\ KeyAt(h1) = KeyAt(h2)
        /\ grKeys[h1].pair # grKeys[h2].pair
\* a key expression has given a key that is present and not a string
NonStringKey ==
    \E h \in 1 .. Len(grKeys) : KeyAt(h) # PyNone /\ KeyAt(h).t # "str"

\* C8: when two different key expressions give the same string key, for one
\* item or for different items, D1009 is raised and no result object is
\* produced; when a key is present and not a string, T1003 is raised.
C8_AmbiguousOrNonStringKey ==
    /\ Collision => grResult = Raise("D1009")
    /\ NonStringKey => grResult = Raise("T1003")

C8_Witness ==
    /\ grResult = Raise("D1009")
    /\ \E h1, h2 \in 1 .. Len(grKeys) :
        /\ KeyAt(h1) = PyStr("k")
        /\ KeyAt(h2) = PyStr("k")
        /\ grKeys[h1].pair # grKeys[h2].pair
        /\ grKeys[h1].item # grKeys[h2].item

\* The items of the input for which the one key expression gives key
RECURSIVE ItemsOfKey(_, _)
ItemsOfKey(input, key) ==
    IF input = <<>> THEN <<>>
    ELSE (IF Head(input) # PyNone /\ Head(input).keys[1] = key THEN <<Head(input)>> ELSE <<>>)
            \o ItemsOfKey(Tail(input), key)

\* C9: grouping by one key expression (keys that are strings or absent) yields
\* an object with exactly one entry per distinct key; its value is the value
\* expression evaluated against all items of that key in input order, so that
\* count-of-context gives the number of items of the key (k,k,j: {k:2, j:1});
\* repeating the evaluation yields the same object.
C9_OneEntryPerKey ==
    (grPairs.n = 1 /\ grPc \in {"done", "error"} /\ ~NonStringKey) =>
        /\ grPc = "done"
        /\ \A h \in 1 .. Len(grKeys) :
              KeyAt(h) # PyNone =>
                Cardinality({e \in 1 .. Len(grResult.v) : grResult.v[e].key = KeyAt(h)}) = 1
        /\ \A e \in 1 .. Len(grResult.v) :
              LET items == ItemsOfKey(grInput, grResult.v[e].key)
              IN /\ Len(items) > 0
                 /\ grPairs.value = "count" => grResult.v[e].value = PyInt(Len(items))
                 /\ grPairs.value = "context" =>
                       IF Len(items) = 1 THEN grResult.v[e].value = items[1]
                       ELSE grResult.v[e].value.v = items
        /\ grPrev # Unbound => grResult = grPrev

(***************************************************************************)
(* Signature.parse_signature and Signature.validate                        *)
(***************************************************************************)
\* Strings are sequences of characters.  The signatures of the functions
\* called: <a<n>:n>, <na<n>>, <a<n>n>, <a<s>>
Signatures ==
    { <<"<", "a", "<", "n", ">", ":", "n", ">">>,
      <<"<", "n", "a", "<", "n", ">", ">">>,
      <<"<", "a", "<", "n", ">", "n", ">">>,
      <<"<", "a", "<", "s", ">", ">">> }

ArgValues ==
    {PyInt(5), PyStr("x"), PyNone, PyList(<<>>), PyList(<<PyInt(1), PyInt(2)>>),
     PyList(<<PyInt(1), PyStr("x")>>)}

\* Param: type, the character class and the quantifier of its regex, array,
\* subtype, context
Param(type, chars) ==
    [type |-> type, chars |-> chars, suffix |-> "", array |-> type = "a",
     subtype |-> <<>>, context |-> FALSE]

AnyType == {"a", "s", "n", "b", "l", "f", "o", "m"}

\* find_closing_bracket: the place of the bracket closing the one at start
RECURSIVE find_closing_bracket(_, _, _, _, _)
find_closing_bracket(string, position, depth, open_symbol, close_symbol) ==
    IF position + 1 > Len(string) THEN position
    ELSE LET symbol == string[position + 1]
         IN IF symbol = close_symbol
            THEN IF depth = 1 THEN position + 1
                 ELSE find_closing_bracket(string, position + 1, depth - 1, open_symbol, close_symbol)
            ELSE IF symbol = open_symbol
            THEN find_closing_bracket(string, position + 1, depth + 1, open_symbol, close_symbol)
            ELSE find_closing_bracket(string, position + 1, depth, open_symbol, close_symbol)

\* parse_signature, the loop over the symbols from position on: _params
RECURSIVE parse_signature(_, _, _)
parse_signature(signature, position, params) ==
    IF position > Len(signature) \/ signature[position] = ":" THEN params
    ELSE LET symbol == signature[position]
             prev == Len(params)
         IN IF symbol \in {"s", "n", "b", "l", "o"}
            THEN parse_signature(signature, position + 1, Append(params, Param(symbol, {symbol, "m"})))
            ELSE IF symbol \in {"a", "x"}
            THEN parse_signature(signature, position + 1, Append(params, Param(symbol, AnyType)))
            ELSE IF symbol = "f"
            THEN parse_signature(signature, position + 1, Append(params, Param(symbol, {"f"})))
            ELSE IF symbol = "j"
            THEN parse_signature(signature, position + 1, Append(params, Param(symbol, AnyType \ {"f"})))
            ELSE IF symbol = "-" /\ prev > 0
            THEN parse_signature(signature, position + 1,
                    [params EXCEPT ![prev].context = TRUE, ![prev].suffix = "?"])
            ELSE IF symbol \in {"?", "+"} /\ prev > 0
            THEN parse_signature(signature, position + 1, [params EXCEPT ![prev].suffix = symbol])
            ELSE IF symbol = "<"
            THEN LET end_pos == find_closing_bracket(signature, position, 1, "<", ">")
                 IN IF prev > 0 /\ params[prev].type \in {"a", "f"}
                    THEN parse_signature(signature, end_pos + 1,
                            [params EXCEPT ![prev].subtype = SubSeq(signature, position + 1, end_pos - 1)])
                    ELSE parse_signature(signature, end_pos + 1, params)
            ELSE parse_signature(signature, position + 1, params)

\* self._regex.fullmatch(supplied_sig) for the regex ^(p1)(p2)...$ of the
\* params: whether it matches, and its groups (greedy, with backtracking)
RECURSIVE fullmatch(_, _)
fullmatch(params, sig) ==
    IF params = <<>> THEN [ok |-> sig = <<>>, groups |-> <<>>]
    ELSE LET param == Head(params)
             lens == IF param.suffix = "?" THEN {0, 1}
                     ELSE IF param.suffix = "+" THEN 1 .. Len(sig)
                     ELSE {1}
             rest(l) == SubSeq(sig, l + 1, Len(sig))
             feasible == {l \in lens :
                            /\ l <= Len(sig)
                            /\ \A i \in 1 .. l : sig[i] \in param.chars
                            /\ fullmatch(Tail(params), rest(l)).ok}
         IN IF feasible = {} THEN [ok |-> FALSE, groups |-> <<>>]
            ELSE LET l == CHOOSE l \in feasible : \A m \in feasible : m <= l
                 IN [ok |-> TRUE,
                     groups |-> <<SubSeq(sig, 1, l)>> \o fullmatch(Tail(params), rest(l)).groups]

\* get_symbol
get_symbol(value) ==
    IF value.t = "none" THEN "m"
    ELSE IF value.t = "str" THEN "s"
    ELSE IF value.t = "bool" THEN "b"
    ELSE IF value.t \in {"int", "float"} THEN "n"
    ELSE IF value.t \in {"list", "jlist"} THEN "a"
    ELSE IF value.t = "dict" THEN "o"
    ELSE "m"

supplied_sig(args) == [i \in 1 .. Len(args) |-> get_symbol(args[i])]

\* JException(code, -1, value, expected)
RaiseOf(code, value, expected) ==
    [t |-> "raise", code |-> code, value |-> value, expected |-> expected]

\* args[arg_index] if arg_index < len(args) else None (arg_index from 0)
ArgAt(args, arg_index) == IF arg_index < Len(args) THEN args[arg_index + 1] ELSE PyNone

\* throw_validation_error: the exception raised when the k-th prefix of the
\* params is the first that does not match bad_sig
RECURSIVE throw_validation_error(_, _, _, _)
throw_validation_error(params, k, good_to, bad_sig) ==
    IF k > Len(params) THEN RaiseOf("T0410", good_to + 1, "function_name")
    ELSE IF ~fullmatch(SubSeq(params, 1, k), bad_sig).ok
         THEN RaiseOf("T0410", good_to + 1, "function_name")
         ELSE throw_validation_error(params, k + 1, Len(bad_sig), bad_sig)

\* validate, "is there type information on the contents of the array?"
array_ok(param, match_, single, arg) ==
    IF param.subtype # <<>>
    THEN IF single # "a" /\ match_ # param.subtype THEN FALSE
         ELSE IF single = "a" /\ arg.v # <<>>
              THEN /\ get_symbol(arg.v[1]) = param.subtype[1]
                   /\ \A o \in 1 .. Len(arg.v) : get_symbol(arg.v[o]) = get_symbol(arg.v[1])
              ELSE TRUE
    ELSE TRUE

Validated(validated, arg_index) == [t |-> "ok", validated |-> validated, arg_index |-> arg_index]

\* validate, the loop over the singles of one param's match
RECURSIVE validate_singles(_, _, _, _, _, _)
validate_singles(param, match_, singles, args, arg_index, validated) ==
    IF singles = <<>> THEN Validated(validated, arg_index)
    ELSE LET single == Head(singles)
             arg == ArgAt(args, arg_index)
         IN IF param.type = "a" /\ single = "m"
            THEN validate_singles(param, match_, Tail(singles), args, arg_index + 1,
                                  Append(validated, PyNone))
            ELSE IF param.type = "a" /\ ~array_ok(param, match_, single, arg)
            THEN RaiseOf("T0412", arg, param.subtype)
            ELSE IF param.type = "a" /\ single # "a"
            THEN validate_singles(param, match_, Tail(singles), args, arg_index + 1,
                                  Append(validated, PyList(<<arg>>)))
            ELSE validate_singles(param, match_, Tail(singles), args, arg_index + 1,
                                  Append(validated, arg))

\* validate, the body of the loop over the params; the context value is absent
validate_param(param, match_, args, arg_index, validated) ==
    IF match_ = <<>>
    THEN IF param.context
         THEN IF "m" \in param.chars THEN Validated(Append(validated, PyNone), arg_index)
              ELSE RaiseOf("T0411", PyNone, arg_index + 1)
         ELSE Validated(Append(validated, ArgAt(args, arg_index)), arg_index + 1)
    ELSE validate_singles(param, match_, match_, args, arg_index, validated)

SigInit ==
    /\ sgSignature = <<>>
    /\ sgArgs = <<>>
    /\ sgParams = <<>>
    /\ sgGroups = <<>>
    /\ sgParam = 0
    /\ sgArgIndex = 0
    /\ sgIndex = 0
    /\ sgValidated = <<>>
    /\ sgPc = "idle"
    /\ sgResult = Unbound

\* Signature(signature, function_name) is built and validate(args, context) is
\* called: supplied_sig is matched against the regex
SgValidate ==
    /\ sgPc = "idle"
    /\ \E signature \in Signatures, args \in SeqUpTo(ArgValues, MaxArgs) :
        /\ sgSignature' = signature
        /\ sgArgs' = args
        /\ sgParams' = parse_signature(signature, 2, <<>>)
        /\ sgGroups' = fullmatch(sgParams', supplied_sig(args)).groups
        /\ sgPc' = IF fullmatch(sgParams', supplied_sig(args)).ok THEN "params" ELSE "invalid"
    /\ sgParam' = 1
    /\ sgArgIndex' = 0
    /\ sgIndex' = 0
    /\ sgValidated' = <<>>
    /\ sgResult' = Unbound
    /\ UNCHANGED <<rangeVars, threadVars, boundsVars, evalVars, applyVars, groupVars, symbolVars, parseVars, filterVars, binaryVars, boolVars, sortVars, lambdaVars, astVars, inputVars>>

\* validate, one round of "for param in self._params", or the return after the
\* last; match_ = is_valid.group(index + 1), and index is not advanced
SgParam ==
    /\ sgPc = "params"
    /\ IF sgParam > Len(sgParams)
       THEN /\ sgResult' = PyList(sgValidated)
            /\ sgPc' = "done"
            /\ UNCHANGED <<sgParam, sgArgIndex, sgValidated>>
       ELSE LET after == validate_param(sgParams[sgParam], sgGroups[sgIndex + 1], sgArgs,
                                        sgArgIndex, sgValidated)
            IN IF IsRaise(after)
               THEN /\ sgResult' = after
                    /\ sgPc' = "error"
                    /\ UNCHANGED <<sgParam, sgArgIndex, sgValidated>>
               ELSE /\ sgValidated' = after.validated
                    /\ sgArgIndex' = after.arg_index
                    /\ sgParam' = sgParam + 1
                    /\ UNCHANGED <<sgResult, sgPc>>
    /\ UNCHANGED <<sgSignature, sgArgs, sgParams, sgGroups, sgIndex>>
    /\ UNCHANGED <<rangeVars, threadVars, boundsVars, evalVars, applyVars, groupVars, symbolVars, parseVars, filterVars, binaryVars, boolVars, sortVars, lambdaVars, astVars, inputVars>>

\* validate when the regex does not match: self.throw_validation_error
SgInvalid ==
    /\ sgPc = "invalid"
    /\ sgResult' = throw_validation_error(sgParams, 1, 0, supplied_sig(sgArgs))
    /\ sgPc' = "error"
    /\ UNCHANGED <<sgSignature, sgArgs, sgParams, sgGroups, sgParam, sgArgIndex, sgIndex, sgValidated>>
    /\ UNCHANGED <<rangeVars, threadVars, boundsVars, evalVars, applyVars, groupVars, symbolVars, parseVars, filterVars, binaryVars, boolVars, sortVars, lambdaVars, astVars, inputVars>>

\* the caller has the validated arguments, or the exception
SgReturn ==
    /\ sgPc \in {"done", "error"}
    /\ sgSignature' = <<>>
    /\ sgArgs' = <<>>
    /\ sgParams' = <<>>
    /\ sgGroups' = <<>>
    /\ sgParam' = 0
    /\ sgArgIndex' = 0
    /\ sgIndex' = 0
    /\ sgValidated' = <<>>
    /\ sgPc' = "idle"
    /\ sgResult' = Unbound
    /\ UNCHANGED <<rangeVars, threadVars, boundsVars, evalVars, applyVars, groupVars, symbolVars, parseVars, filterVars, binaryVars, boolVars, sortVars, lambdaVars, astVars, inputVars>>

SigNext == SgValidate \/ SgParam \/ SgInvalid \/ SgReturn

InitSig == SigInit /\ RangeIdle /\ ThreadsIdle /\ BoundsIdle /\ EvalIdle /\ ApplyIdle /\ GroupIdle /\ SymbolIdle /\ ParseIdle /\ FilterIdle /\ BinaryIdle /\ BoolIdle /\ SortIdle /\ LambdaIdle /\ AstIdle /\ InputIdle

SpecSig == InitSig /\ [][SigNext]_vars

IsNumber(x) == x.t \in {"int", "float"}
IsNumberArray(x) == x.t = "list" /\ \A i \in 1 .. Len(x.v) : IsNumber(x.v[i])
\* the arguments are one per parameter, and those other than the p-th are what
\* their parameters (n or a<n>) accept
OthersAccepted(p) ==
    /\ Len(sgArgs) = Len(sgParams)
    /\ \A q \in 1 .. Len(sgParams) :
          q # p => IF sgParams[q].type = "n" THEN IsNumber(sgArgs[q])
                   ELSE IsNumber(sgArgs[q]) \/ IsNumberArray(sgArgs[q])

\* C10: for a parameter declared a<n>, validate returns [v] for a bare number
\* v, the argument unchanged for an array of numbers, and raises T0412 with the
\* argument for an array that contains a non-number.
C10_ArrayOfNumberParam ==
    sgPc \in {"done", "error"} =>
        \A p \in 1 .. Len(sgParams) :
            (sgParams[p].type = "a" /\ sgParams[p].subtype = <<"n">> /\ OthersAccepted(p)) =>
                /\ IsNumber(sgArgs[p]) =>
                      (sgPc = "done" /\ sgResult.v[p] = PyList(<<sgArgs[p]>>))
                /\ IsNumberArray(sgArgs[p]) =>
                      (sgPc = "done" /\ sgResult.v[p] = sgArgs[p])
                /\ (sgArgs[p].t = "list" /\ ~IsNumberArray(sgArgs[p])) =>
                      sgResult = RaiseOf("T0412", sgArgs[p], <<"n">>)

\* the type codes of the first q arguments can still be completed to a string
\* the signature accepts
ViablePrefix(q) ==
    \E c \in SeqUpTo({"n", "s", "a"}, Len(sgParams)) :
        fullmatch(sgParams, SubSeq(supplied_sig(sgArgs), 1, q) \o c).ok

\* the arguments with which the type codes stop being acceptable
Offending == {p \in 1 .. Len(sgArgs) : ViablePrefix(p - 1) /\ ~ViablePrefix(p)}

\* C23: when the type codes of the arguments do not match the signature, the
\* T0410 raised names the 1-based position of the first argument that violates
\* the signature (2 when the first is acceptable and the second is not, n + 1
\* for an extraneous argument after n accepted ones) and the function name.
C23_ErrorNamesFirstOffender ==
    (sgPc = "error" /\ sgResult.code = "T0410" /\ Offending # {}) =>
        /\ \A p \in Offending : sgResult.value = p
        /\ sgResult.expected = "function_name"

(***************************************************************************)
(* Parser.register and the symbol table                                    *)
(***************************************************************************)
MaxBp == 2
MaxRegs == 3

\* A symbol handed to register: its id, its binding power and the class that
\* gives it its nud and led.
SymbolOf(id, bp, class) == [id |-> id, bp |-> bp, class |-> class]

\* symbol_table maps an id to the symbol first registered under it (its class
\* and bp) with the left binding power lbp the registrations gave it.
register_last(table, t) ==
    [i \in DOMAIN table \cup {t.id} |->
        IF i = t.id THEN [class |-> t.class, bp |-> t.bp, lbp |-> t.bp] ELSE table[i]]

register(table, t) ==
    IF t.id \in DOMAIN table
    THEN IF t.bp >= table[t.id].lbp
         THEN [table EXCEPT ![t.id].lbp = t.bp]
         ELSE table
    ELSE [i \in DOMAIN table \cup {t.id} |->
             IF i = t.id THEN [class |-> t.class, bp |-> t.bp, lbp |-> t.bp] ELSE table[i]]

\* The symbols a caller registers: a few ids, each as a plain symbol or as an
\* infix operator, with binding powers 0 .. MaxBp.
RegSymbols ==
    {SymbolOf(id, bp, class) : id \in {"and", "-", "(name)"}, bp \in 0 .. MaxBp, class \in {"Symbol", "Infix"}}

\* Parser.__init__ starts from an empty table.
SymbolInit ==
    /\ syTable = <<>>
    /\ syLog = <<>>

SyRegister ==
    /\ Len(syLog) < MaxRegs
    /\ \E t \in RegSymbols :
          /\ syTable' = register(syTable, t)
          /\ syLog' = Append(syLog, t)
    /\ UNCHANGED <<rangeVars, threadVars, boundsVars, evalVars, applyVars, groupVars, sigVars, parseVars, filterVars, binaryVars, boolVars, sortVars, lambdaVars, astVars, inputVars>>

RegisterNext == SyRegister

InitRegister == SymbolInit /\ RangeIdle /\ ThreadsIdle /\ BoundsIdle /\ EvalIdle /\ ApplyIdle /\ GroupIdle /\ SigIdle /\ ParseIdle /\ FilterIdle /\ BinaryIdle /\ BoolIdle /\ SortIdle /\ LambdaIdle /\ AstIdle /\ InputIdle

SpecRegister == InitRegister /\ [][RegisterNext]_vars

\* the binding powers registered so far under an id
BpsOf(id) == {syLog[i].bp : i \in {j \in 1 .. Len(syLog) : syLog[j].id = id}}

\* C18: after any sequence of register calls the table has one entry for each
\* id registered and none else, and the lbp of an id is the greatest binding
\* power registered under it, whatever the order of the registrations.
C18_RegisterKeepsMaximum ==
    /\ DOMAIN syTable = {syLog[i].id : i \in 1 .. Len(syLog)}
    /\ \A id \in DOMAIN syTable :
          /\ syTable[id].lbp \in BpsOf(id)
          /\ \A bp \in BpsOf(id) : bp <= syTable[id].lbp

\* an id registered twice, the greater binding power first
C18_Witness ==
    \E i, j \in 1 .. Len(syLog) :
        /\ i < j
        /\ syLog[i].id = syLog[j].id
        /\ syLog[i].bp > syLog[j].bp
        /\ syTable[syLog[i].id].lbp = syLog[i].bp

(***************************************************************************)
(* Parser.parse: tokens, advance, expression, nud and led                  *)
(***************************************************************************)
MaxTokens == 3
MaxOps == 3
MaxParses == 2

\* What Tokenizer.next returns: a token with its type and value; its position
\* is its place in the source.
Token(type, value) == [type |-> type, value |-> value]

NameToken == Token("name", "a")
VariableToken == Token("variable", "x")
Operator(value) == Token("operator", value)

\* Tokenizer.operators: the binding powers of the operators modelled.
operators == [op \in {".", "+", "%", ":="} |->
                 CASE op = "." -> 75
                   [] op = "%" -> 60
                   [] op = "+" -> 50
                   [] op = ":=" -> 10]

Alphabet == {NameToken, VariableToken} \cup {Operator(op) : op \in DOMAIN operators}

\* operand (operator operand)^n
RECURSIVE Chains(_)
Chains(n) ==
    IF n = 0 THEN {<<o>> : o \in {NameToken, VariableToken}}
    ELSE {c \o <<Operator(op), o>> : c \in Chains(n - 1), op \in DOMAIN operators, o \in {NameToken, VariableToken}}

\* The source texts parsed: every token sequence up to MaxTokens tokens, and
\* the well-formed chains of up to MaxOps operators.
Sources ==
    UNION {[1 .. n -> Alphabet] : n \in 0 .. MaxTokens} \cup UNION {Chains(n) : n \in 0 .. MaxOps}

\* The registrations of Parser.__init__ for the modelled tokens.
Registrations ==
    << SymbolOf("(end)", 0, "Terminal"),
       SymbolOf("(name)", 0, "Terminal"),
       SymbolOf(".", operators["."], "Infix"),
       SymbolOf("+", operators["+"], "Infix"),
       SymbolOf("%", operators["%"], "InfixParentOperator"),
       SymbolOf(":=", operators[":="], "InfixRBindVariable") >>

RECURSIVE RegisterAll(_, _)
RegisterAll(table, ts) ==
    IF ts = <<>> THEN table ELSE RegisterAll(register(table, Head(ts)), Tail(ts))

symbol_table == RegisterAll(<<>>, Registrations)

\* None as an id, a value or an error code; None as a slot.  A slot is held by
\* reference: ref is slot.index, its place in Parser.ancestry.
NoId == ""
NoRaise == ""
NoSlot == [ref |-> -1]

\* Symbol.__init__: every field None, False or 0.  A type of None is written
\* "(null)", as process_ast reads it; a list that is None is written <<>>,
\* except predicate and stages, which are None or PyList(..); _else is else_.
Symbol(id) ==
    [id |-> id, type |-> "(null)", value |-> id, position |-> 0, lbp |-> 0, bp |-> 0,
     class |-> "Symbol", lhs |-> PyNone, rhs |-> PyNone, steps |-> <<>>,
     slot |-> NoSlot, ancestor |-> NoSlot, tuple |-> FALSE, seeking_parent |-> <<>>,
     error |-> NoId, errors |-> <<>>,
     thunk |-> FALSE, procedure |-> PyNone, arguments |-> <<>>, body |-> PyNone,
     predicate |-> PyNone, stages |-> PyNone, expr |-> PyNone, group |-> PyNone,
     lhs_object |-> <<>>, rhs_object |-> <<>>,
     condition |-> PyNone, then |-> PyNone, else_ |-> PyNone, expressions |-> <<>>]

\* The lexer's position after one more call of next.
NextPos(toks, pos) == IF pos > Len(toks) THEN pos ELSE pos + 1

\* advance(): self.node for the token at pos; "(end)" once the tokens are used up.
advance(toks, pos) ==
    IF pos > Len(toks)
    THEN [Symbol("(end)") EXCEPT !.class = "Terminal", !.position = Len(toks)]
    ELSE LET next_token == toks[pos]
             id == IF next_token.type \in {"name", "variable"} THEN "(name)" ELSE next_token.value
             symbol == symbol_table[id]
         IN [Symbol(id) EXCEPT !.class = symbol.class, !.lbp = symbol.lbp, !.bp = symbol.bp,
                               !.value = next_token.value, !.type = next_token.type,
                               !.position = pos]

\* The outcome of a parsing step: the node built, the lexer's position, the
\* parser's error list, the errors met so far, and the code raised if any.
Parsed(left, cx) ==
    [left |-> left, pos |-> cx.pos, errors |-> cx.errors, seen |-> cx.seen, raise |-> NoRaise]

Context(r) == [pos |-> r.pos, errors |-> r.errors, seen |-> r.seen]

handle_error(recover, code, cx) ==
    IF recover
    THEN [left |-> Symbol(NoId), pos |-> cx.pos, errors |-> Append(cx.errors, code),
          seen |-> Append(cx.seen, code), raise |-> NoRaise]
    ELSE [left |-> Symbol(NoId), pos |-> cx.pos, errors |-> cx.errors,
          seen |-> Append(cx.seen, code), raise |-> code]

\* Terminal.nud, InfixParentOperator.nud, and Symbol.nud for the symbols
\* without a prefix rule.
nud(recover, t, cx) ==
    CASE t.class = "Terminal" -> Parsed(t, cx)
      [] t.class = "InfixParentOperator" -> Parsed([t EXCEPT !.type = "parent"], cx)
      [] OTHER ->
            IF recover
            THEN Parsed(Symbol(NoId), [cx EXCEPT !.seen = Append(@, "S0211")])
            ELSE [left |-> Symbol(NoId), pos |-> cx.pos, errors |-> cx.errors,
                  seen |-> Append(cx.seen, "S0211"), raise |-> "S0211"]

\* The binding power Infix.led parses its right operand with.
Infix_rbp_zero(t) == 0

Infix_rbp(t) == t.bp

\* The binding power InfixRBindVariable.led parses its right operand with.
InfixRBindVariable_rbp_own == operators[":="]

InfixRBindVariable_rbp == operators[":="] - 1

RECURSIVE expression(_, _, _, _), expression_loop(_, _, _, _), led(_, _, _, _, _)
expression(recover, toks, rbp, cx) ==
    LET t == advance(toks, cx.pos)
        r == nud(recover, t, [cx EXCEPT !.pos = NextPos(toks, @)])
    IN IF r.raise # NoRaise THEN r ELSE expression_loop(recover, toks, rbp, r)

\* while rbp < self.node.lbp
expression_loop(recover, toks, rbp, r) ==
    LET t == advance(toks, r.pos)
    IN IF rbp < t.lbp
       THEN LET r1 == led(recover, toks, t, r.left, [Context(r) EXCEPT !.pos = NextPos(toks, @)])
            IN IF r1.raise # NoRaise THEN r1 ELSE expression_loop(recover, toks, rbp, r1)
       ELSE r

\* InfixRBindVariable.led and Infix.led
led(recover, toks, t, left, cx) ==
    IF t.class = "InfixRBindVariable"
    THEN IF left.type # "variable"
         THEN handle_error(recover, "S0212", cx)
         ELSE LET r == expression(recover, toks, InfixRBindVariable_rbp, cx)
              IN [r EXCEPT !.left = [t EXCEPT !.lhs = left, !.rhs = r.left, !.type = "binary"]]
    ELSE LET r == expression(recover, toks, Infix_rbp(t), cx)
         IN [r EXCEPT !.left = [t EXCEPT !.lhs = left, !.rhs = r.left, !.type = "binary"]]

(***************************************************************************)
(* Parser.process_ast and the ancestry of the parent operator              *)
(***************************************************************************)
\* The outcome of a step of the semantic pass: the node, the parser's state
\* (ancestor_label, ancestor_index, ancestry, errors, and the errors met so
\* far), and the code raised if any.  ancestry[i + 1] is the slot of index i.
Processed(node, st) == [node |-> node, st |-> st, raise |-> NoRaise]

Raised(code, node, st) ==
    [node |-> node, st |-> [st EXCEPT !.seen = Append(@, code)], raise |-> code]

SlotAt(st, slot) == st.ancestry[slot.ref + 1]

\* Only names, wildcards and parents are steps of the modelled paths: blocks
\* and nested paths need parentheses.
seek_parent(node, slot, st) ==
    CASE node.type \in {"name", "wildcard"} ->
            LET st1 == [st EXCEPT !.ancestry[slot.ref + 1].level = @ - 1]
            IN IF SlotAt(st1, slot).level = 0
               THEN IF node.ancestor = NoSlot
                    THEN Processed([node EXCEPT !.ancestor = slot, !.tuple = TRUE], st1)
                    ELSE Processed([node EXCEPT !.ancestor = slot, !.tuple = TRUE],
                                   [st1 EXCEPT !.ancestry[slot.ref + 1].label = SlotAt(st1, node.ancestor).label])
               ELSE Processed(node, st1)
      [] node.type = "parent" ->
            Processed(node, [st EXCEPT !.ancestry[slot.ref + 1].level = @ + 1])
      [] OTHER -> Raised("S0217", node, st)

push_ancestry(result, value) ==
    IF value.seeking_parent # <<>> \/ value.type = "parent"
    THEN [result EXCEPT !.seeking_parent =
             @ \o (IF value.type = "parent" THEN Append(value.seeking_parent, value.slot)
                   ELSE value.seeking_parent)]
    ELSE result

\* resolve_ancestry, the loop "while slot.level > 0" for one slot; index is
\* the step tried next.
RECURSIVE resolve_slot(_, _, _, _)
resolve_slot(path, st, slot, index) ==
    IF SlotAt(st, slot).level > 0
    THEN IF index < 1
         THEN Processed([path EXCEPT !.seeking_parent = Append(@, slot)], st)
         ELSE LET sought == seek_parent(path.steps[index], slot, st)
              IN IF sought.raise # NoRaise
                 THEN [sought EXCEPT !.node = path]
                 ELSE resolve_slot([path EXCEPT !.steps[index] = sought.node], sought.st, slot, index - 1)
    ELSE Processed(path, st)

RECURSIVE resolve_slots(_, _, _)
resolve_slots(path, st, slots) ==
    IF slots = <<>> THEN Processed(path, st)
    ELSE LET r == resolve_slot(path, st, Head(slots), Len(path.steps) - 1)
         IN IF r.raise # NoRaise THEN r ELSE resolve_slots(r.node, r.st, Tail(slots))

resolve_ancestry(path, st) ==
    LET laststep == path.steps[Len(path.steps)]
        slots == IF laststep.type = "parent"
                 THEN Append(laststep.seeking_parent, laststep.slot)
                 ELSE laststep.seeking_parent
    IN resolve_slots(path, st, slots)

\* process_ast, binary ".": the steps of the right operand join the path.
path_steps_nested(steps, rest) == Append(steps, rest)

path_steps(steps, rest) ==
    IF rest.type = "path" THEN steps \o rest.steps
    ELSE IF rest.predicate # PyNone
         THEN Append(steps, [rest EXCEPT !.stages = rest.predicate, !.predicate = PyNone])
         ELSE Append(steps, rest)

RECURSIVE process_ast(_, _, _)
\* binary ".": the path the left operand starts, then the right operand
path_of(lstep) ==
    LET path == IF lstep.type = "path" THEN lstep
                ELSE [Symbol(NoId) EXCEPT !.class = "Infix", !.type = "path", !.steps = <<lstep>>]
    IN IF lstep.type = "parent" THEN [path EXCEPT !.seeking_parent = <<lstep.slot>>] ELSE path

path_rest(result, r) ==
    IF r.raise # NoRaise THEN r
    ELSE resolve_ancestry([result EXCEPT !.steps = path_steps(@, r.node)], r.st)

process_path(recover, expr, l) ==
    IF l.raise # NoRaise THEN l
    ELSE path_rest(path_of(l.node), process_ast(recover, expr.rhs, l.st))

\* binary ":=" and the other binary operators: lhs, rhs, push_ancestry
bind_rest(expr, lhs, r) ==
    IF r.raise # NoRaise THEN r
    ELSE Processed(push_ancestry([Symbol(NoId) EXCEPT !.type = "bind", !.value = expr.value,
                                                      !.position = expr.position,
                                                      !.lhs = lhs, !.rhs = r.node],
                                 r.node),
                   r.st)

process_bind(recover, expr, l) ==
    IF l.raise # NoRaise THEN l
    ELSE bind_rest(expr, l.node, process_ast(recover, expr.rhs, l.st))

binary_rest(expr, lhs, r) ==
    IF r.raise # NoRaise THEN r
    ELSE Processed(push_ancestry(push_ancestry([Symbol(NoId) EXCEPT !.class = "Infix", !.type = expr.type,
                                                                    !.value = expr.value,
                                                                    !.position = expr.position,
                                                                    !.lhs = lhs, !.rhs = r.node],
                                               lhs),
                                 r.node),
                   r.st)

process_binary(recover, expr, l) ==
    IF l.raise # NoRaise THEN l
    ELSE binary_rest(expr, l.node, process_ast(recover, expr.rhs, l.st))

\* the last branch: a node that is no expression
process_invalid(recover, code, expr, st) ==
    IF recover
    THEN Processed([Symbol(NoId) EXCEPT !.type = "error", !.error = code],
                   [st EXCEPT !.errors = Append(@, code), !.seen = Append(@, code)])
    ELSE Raised(code, expr, st)

\* a list of expressions processed in order into result[field]: the arguments
\* of a function and the expressions of a block with push_ancestry, the keys
\* and values of a group-by (one after the other) without
RECURSIVE process_items(_, _, _, _, _, _)
items_rest(recover, rest, result, field, push, r) ==
    IF r.raise # NoRaise THEN r
    ELSE process_items(recover, rest,
                       IF push THEN push_ancestry([result EXCEPT ![field] = Append(@, r.node)], r.node)
                       ELSE [result EXCEPT ![field] = Append(@, r.node)],
                       field, push, r.st)

process_items(recover, items, result, field, push, st) ==
    IF items = <<>> THEN Processed(result, st)
    ELSE items_rest(recover, Tail(items), result, field, push, process_ast(recover, Head(items), st))

\* binary "[": the filter joins the stages of the last step of a path, or the
\* predicate of another node.  The predicates of the modelled sources have no
\* parent operator, so predicate.seeking_parent is None.
filter_of(expr, predicate) ==
    [Symbol(NoId) EXCEPT !.type = "filter", !.expr = predicate, !.position = expr.position]

with_filter(list, s) == IF list = PyNone THEN PyList(<<s>>) ELSE PyList(Append(list.v, s))

predicate_rest(expr, result, p) ==
    IF p.raise # NoRaise THEN p
    ELSE IF result.type = "path"
    THEN Processed([result EXCEPT !.steps[Len(result.steps)].stages = with_filter(@, filter_of(expr, p.node))],
                   p.st)
    ELSE Processed([result EXCEPT !.predicate = with_filter(@, filter_of(expr, p.node))], p.st)

\* the step the predicate is for: the last step of a path, else the node
predicate_step(result) ==
    IF result.type = "path" THEN result.steps[Len(result.steps)] ELSE result

process_predicate(recover, expr, l) ==
    IF l.raise # NoRaise THEN l
    ELSE IF predicate_step(l.node).group # PyNone THEN Raised("S0209", expr, l.st)
    ELSE predicate_rest(expr, l.node, process_ast(recover, expr.rhs, l.st))

\* binary "{": the group-by is attached to what the left operand gave
group_rest(result, g) ==
    IF g.raise # NoRaise THEN g
    ELSE Processed([result EXCEPT !.group = g.node], g.st)

process_group(recover, expr, l) ==
    IF l.raise # NoRaise THEN l
    ELSE IF l.node.group # PyNone THEN Raised("S0210", expr, l.st)
    ELSE group_rest(l.node,
                    process_items(recover, expr.rhs_object,
                                  [Symbol(NoId) EXCEPT !.position = expr.position],
                                  "lhs_object", FALSE, l.st))

\* binary "~>": lhs and rhs, no push_ancestry
apply_rest(expr, lhs, r) ==
    IF r.raise # NoRaise THEN r
    ELSE Processed([Symbol(NoId) EXCEPT !.type = "apply", !.value = expr.value,
                                        !.position = expr.position, !.lhs = lhs, !.rhs = r.node],
                   r.st)

process_apply(recover, expr, l) ==
    IF l.raise # NoRaise THEN l
    ELSE apply_rest(expr, l.node, process_ast(recover, expr.rhs, l.st))

\* function: the arguments, then the procedure
procedure_rest(result, p) ==
    IF p.raise # NoRaise THEN p
    ELSE Processed([result EXCEPT !.procedure = p.node], p.st)

function_rest(recover, expr, a) ==
    IF a.raise # NoRaise THEN a
    ELSE procedure_rest(a.node, process_ast(recover, expr.procedure, a.st))

process_function(recover, expr, st) ==
    function_rest(recover, expr,
                  process_items(recover, expr.arguments,
                                [Symbol(NoId) EXCEPT !.type = expr.type, !.value = expr.value,
                                                     !.position = expr.position],
                                "arguments", TRUE, st))

\* tail_call_optimize wrapping every function call
is_tail_call_any(expr) == expr.type = "function"

\* tail_call_optimize, the test of its first branch
is_tail_call(expr) == expr.type = "function" /\ expr.predicate = PyNone

RECURSIVE tail_call_optimize(_)
tail_call_optimize(expr) ==
    IF is_tail_call(expr)
    THEN [Symbol(NoId) EXCEPT !.type = "lambda", !.thunk = TRUE, !.position = expr.position,
                              !.body = expr]
    ELSE IF expr.type = "condition"
    THEN [expr EXCEPT !.then = tail_call_optimize(@),
                      !.else_ = IF @ = PyNone THEN @ ELSE tail_call_optimize(@)]
    ELSE IF expr.type = "block"
    THEN IF Len(expr.expressions) > 0
         THEN [expr EXCEPT !.expressions[Len(expr.expressions)] = tail_call_optimize(@)]
         ELSE expr
    ELSE expr

\* lambda: the body is processed, then analysed for tail calls
lambda_rest(expr, b) ==
    IF b.raise # NoRaise THEN b
    ELSE Processed([Symbol(NoId) EXCEPT !.type = expr.type, !.arguments = expr.arguments,
                                        !.position = expr.position,
                                        !.body = tail_call_optimize(b.node)],
                   b.st)

\* condition: condition, then and else, each with push_ancestry
else_rest(result, e) ==
    IF e.raise # NoRaise THEN e
    ELSE Processed(push_ancestry([result EXCEPT !.else_ = e.node], e.node), e.st)

then_rest(recover, expr, result, t) ==
    IF t.raise # NoRaise THEN t
    ELSE IF expr.else_ # PyNone
    THEN else_rest(push_ancestry([result EXCEPT !.then = t.node], t.node),
                   process_ast(recover, expr.else_, t.st))
    ELSE Processed(push_ancestry([result EXCEPT !.then = t.node], t.node), t.st)

process_condition(recover, expr, c) ==
    IF c.raise # NoRaise THEN c
    ELSE then_rest(recover, expr,
                   push_ancestry([Symbol(NoId) EXCEPT !.type = expr.type, !.position = expr.position,
                                                      !.condition = c.node],
                                 c.node),
                   process_ast(recover, expr.then, c.st))

process_ast(recover, expr, st) ==
    CASE expr.type = "binary" /\ expr.value = "." ->
            process_path(recover, expr, process_ast(recover, expr.lhs, st))
      [] expr.type = "binary" /\ expr.value = "[" ->
            process_predicate(recover, expr, process_ast(recover, expr.lhs, st))
      [] expr.type = "binary" /\ expr.value = "{" ->
            process_group(recover, expr, process_ast(recover, expr.lhs, st))
      [] expr.type = "binary" /\ expr.value = ":=" ->
            process_bind(recover, expr, process_ast(recover, expr.lhs, st))
      [] expr.type = "binary" /\ expr.value = "~>" ->
            process_apply(recover, expr, process_ast(recover, expr.lhs, st))
      [] expr.type = "binary" /\ expr.value \notin {".", "[", "{", ":=", "~>"} ->
            process_binary(recover, expr, process_ast(recover, expr.lhs, st))
      [] expr.type = "function" -> process_function(recover, expr, st)
      [] expr.type = "lambda" -> lambda_rest(expr, process_ast(recover, expr.body, st))
      [] expr.type = "condition" ->
            process_condition(recover, expr, process_ast(recover, expr.condition, st))
      [] expr.type = "block" ->
            process_items(recover, expr.expressions,
                          [Symbol(NoId) EXCEPT !.type = expr.type, !.position = expr.position],
                          "expressions", TRUE, st)
      [] expr.type = "number" -> Processed(expr, st)
      [] expr.type = "name" ->
            Processed([Symbol(NoId) EXCEPT !.type = "path", !.steps = <<expr>>], st)
      [] expr.type = "parent" ->
            Processed([Symbol(NoId) EXCEPT !.type = "parent", !.slot = [ref |-> st.index]],
                      [st EXCEPT !.ancestry = Append(@, [label |-> <<"!", st.label>>, level |-> 1]),
                                 !.label = @ + 1, !.index = @ + 1])
      [] expr.type = "variable" -> Processed(expr, st)
      [] OTHER ->
            process_invalid(recover, IF expr.id = "(end)" THEN "S0207" ELSE "S0206", expr, st)

\* The tree as the caller sees it: the slots read through their references.
SlotOf(slot, ancestry) == IF slot = NoSlot THEN slot ELSE ancestry[slot.ref + 1]

RECURSIVE Tree(_, _)
Tree(node, ancestry) ==
    IF node = PyNone THEN node
    ELSE [node EXCEPT !.lhs = Tree(@, ancestry), !.rhs = Tree(@, ancestry),
                      !.steps = [i \in DOMAIN @ |-> Tree(@[i], ancestry)],
                      !.slot = SlotOf(@, ancestry), !.ancestor = SlotOf(@, ancestry),
                      !.seeking_parent = [i \in DOMAIN @ |-> SlotOf(@[i], ancestry)]]

\* Parser.parse on a parser in state p (ancestor_label, ancestor_index,
\* ancestry, errors, and no error met yet): what it returns or raises, the
\* tree expression(0) built, and the parser's state after.
ParseResult(out, raw, st) == [out |-> out, raw |-> raw, st |-> st]

\* the end of parse: the check of the top of the tree, and expr.errors
parse_return(raw, a) ==
    IF a.raise # NoRaise
    THEN ParseResult(Raise(a.raise), raw, a.st)
    ELSE IF a.node.type = "parent" \/ a.node.seeking_parent # <<>>
    THEN ParseResult(Raise("S0217"), raw, [a.st EXCEPT !.seen = Append(@, "S0217")])
    ELSE ParseResult([t |-> "ast", node |-> Tree([a.node EXCEPT !.errors = a.st.errors], a.st.ancestry)],
                     raw, a.st)

\* after the check for tokens left over (h): process_ast
parse_process(recover, p, raw, h) ==
    IF h.raise # NoRaise
    THEN ParseResult(Raise(h.raise), raw, [p EXCEPT !.errors = h.errors, !.seen = h.seen])
    ELSE parse_return(raw, process_ast(recover, raw, [p EXCEPT !.errors = h.errors, !.seen = h.seen]))

\* after expression(0) (e): the check for tokens left over
parse_expression(recover, toks, p, e) ==
    IF e.raise # NoRaise
    THEN ParseResult(Raise(e.raise), [t |-> "unbound"], [p EXCEPT !.errors = e.errors, !.seen = e.seen])
    ELSE parse_process(recover, p, e.left,
                       IF advance(toks, e.pos).id # "(end)"
                       THEN handle_error(recover, "S0201", Context(e))
                       ELSE e)

parse(recover, toks, p) ==
    parse_expression(recover, toks, p,
                     expression(recover, toks, 0, [pos |-> 1, errors |-> p.errors, seen |-> <<>>]))

\* A parser as constructed, with recover left False or set by the caller,
\* and the source text its caller parses.
ParseInit ==
    /\ psRecover \in BOOLEAN
    /\ psSource \in Sources
    /\ psLabel = 0
    /\ psIndex = 0
    /\ psAncestry = <<>>
    /\ psErrors = <<>>
    /\ psSeen = <<>>
    /\ psRaw = [t |-> "unbound"]
    /\ psOut = [t |-> "unbound"]
    /\ psPrev = [t |-> "unbound"]
    /\ psCalls = 0

\* parser.parse(source)
PsParse ==
    /\ psCalls < MaxParses
    /\ LET r == parse(psRecover, psSource, [label |-> psLabel, index |-> psIndex, ancestry |-> psAncestry,
                                            errors |-> psErrors, seen |-> <<>>])
       IN /\ psOut' = r.out
          /\ psRaw' = r.raw
          /\ psLabel' = r.st.label
          /\ psIndex' = r.st.index
          /\ psAncestry' = r.st.ancestry
          /\ psErrors' = r.st.errors
          /\ psSeen' = r.st.seen
    /\ psPrev' = psOut
    /\ psCalls' = psCalls + 1
    /\ UNCHANGED <<psRecover, psSource>>
    /\ UNCHANGED <<rangeVars, threadVars, boundsVars, evalVars, applyVars, groupVars, sigVars, symbolVars, filterVars, binaryVars, boolVars, sortVars, lambdaVars, astVars, inputVars>>

ParseNext == PsParse

InitParse == ParseInit /\ RangeIdle /\ ThreadsIdle /\ BoundsIdle /\ EvalIdle /\ ApplyIdle /\ GroupIdle /\ SigIdle /\ SymbolIdle /\ FilterIdle /\ BinaryIdle /\ BoolIdle /\ SortIdle /\ LambdaIdle /\ AstIdle /\ InputIdle

SpecParse == InitParse /\ [][ParseNext]_vars

\* C11: a second parse of the same source on the same parser returns what
\* the first returned: an equal tree (kinds, steps, flags, slot labels) with
\* an equal error list, or the same error raised.
C11_ParseDeterministic ==
    psCalls >= 2 => psOut = psPrev

\* the source is n names joined by "."
IsNameChain(toks) ==
    /\ Len(toks) % 2 = 1
    /\ \A i \in 1 .. Len(toks) :
          toks[i] = (IF i % 2 = 1 THEN NameToken ELSE Operator("."))

\* C12: a chain of n names joined by "." parses to one path of n steps, the
\* names in source order, none of them a path.
C12_NameChainIsOnePath ==
    (psCalls >= 1 /\ IsNameChain(psSource)) =>
        /\ psOut.t = "ast"
        /\ psOut.node.type = "path"
        /\ Len(psOut.node.steps) = (Len(psSource) + 1) \div 2
        /\ \A i \in 1 .. Len(psOut.node.steps) :
              /\ psOut.node.steps[i].type = "name"
              /\ psOut.node.steps[i].position = 2 * i - 1

\* a chain of MaxOps + 1 names has been parsed
C12_Witness ==
    /\ psCalls >= 1
    /\ IsNameChain(psSource)
    /\ Len(psSource) = 2 * MaxOps + 1
    /\ psOut.t = "ast"
    /\ Len(psOut.node.steps) = MaxOps + 1

\* the left-associative binary operators of the modelled grammar
LeftInfix == {".", "+", "%"}

IsOperand(tok) == tok \in {NameToken, VariableToken}

\* the source is a OP1 b OP2 c
IsPair(toks, op1, op2) ==
    /\ Len(toks) = 5
    /\ IsOperand(toks[1]) /\ IsOperand(toks[3]) /\ IsOperand(toks[5])
    /\ toks[2] = Operator(op1)
    /\ toks[4] = Operator(op2)

IsBinary(node, op, position) ==
    /\ "type" \in DOMAIN node
    /\ node.type = "binary"
    /\ node.value = op
    /\ node.position = position

IsBindChain(toks, k) ==
    /\ Len(toks) = 2 * k + 1
    /\ IsOperand(toks[Len(toks)])
    /\ \A i \in 1 .. 2 * k :
          toks[i] = (IF i % 2 = 1 THEN VariableToken ELSE Operator(":="))

\* node is the i-th bind of k, its right operand the binds after it
RECURSIVE RightNested(_, _, _)
RightNested(node, i, k) ==
    /\ IsBinary(node, ":=", 2 * i)
    /\ node.lhs.type = "variable"
    /\ node.lhs.position = 2 * i - 1
    /\ IF i = k
       THEN node.rhs.position = 2 * k + 1 /\ node.rhs.type # "binary"
       ELSE RightNested(node.rhs, i + 1, k)

\* C14: a chain of k >= 2 binds parses as $v1 := ($v2 := (... := e)).
C14_BindRightAssociative ==
    \A k \in 2 .. MaxOps :
        (psCalls >= 1 /\ IsBindChain(psSource, k)) => RightNested(psRaw, 1, k)

\* a chain of MaxOps binds, nested to the right
C14_Witness ==
    /\ psCalls >= 1
    /\ IsBindChain(psSource, MaxOps)
    /\ RightNested(psRaw, 1, MaxOps)

\* C15: without recovery the first error met is raised and nothing is
\* collected; with recovery nothing is raised, every error met is appended
\* to the error list, and the tree returned carries that list.
C15_ErrorsRaisedOrCollected ==
    psCalls = 1 =>
        IF psRecover
        THEN /\ ~IsRaise(psOut)
             /\ psErrors = psSeen
             /\ psOut.node.errors = psErrors
        ELSE /\ psErrors = <<>>
             /\ psSeen # <<>> => psOut = Raise(psSeen[1])

(***************************************************************************)
(* evaluate_filter with a number as predicate                              *)
(***************************************************************************)
MaxSeqLen == 3

\* The items of the input, and the inputs: a list of up to MaxSeqLen items,
\* or a single value.
FilterItems == {PyInt(i) : i \in 1 .. MaxSeqLen}

FilterInputs ==
    {PyList(s) : s \in UNION {[1 .. n -> FilterItems] : n \in 0 .. MaxSeqLen}} \cup FilterItems

\* The predicates: a number node with an integral value, of either type.
FilterPredicates ==
    {[type |-> "number", value |-> v] :
        v \in {PyInt(k) : k \in -(2 * MaxSeqLen + 1) .. (MaxSeqLen + 1)}
              \cup {PyFloat(k) : k \in -(2 * MaxSeqLen + 1) .. (MaxSeqLen + 1)}}

\* int(x) of a number
int(x) == x.v

\* list[index] of Python: a negative index counts from the end, an index
\* outside -len .. len - 1 raises IndexError.
GetItem(list, index) ==
    IF 0 <= index /\ index < Len(list) THEN list[index + 1]
    ELSE IF -Len(list) <= index /\ index < 0 THEN list[Len(list) + index + 1]
    ELSE Raise("IndexError")

\* item = input_item[index] if index < len(input_item) else None
filter_item(input_item, index) ==
    IF index < Len(input_item) THEN GetItem(input_item, index) ELSE PyNone

\* the branch predicate.type == "number" of evaluate_filter
evaluate_filter(predicate, input_item) ==
    LET input == IF IsList(input_item) THEN input_item ELSE create_sequence(input_item)
        index == IF int(predicate.value) < 0
                 THEN Len(input.v) + int(predicate.value)
                 ELSE int(predicate.value)
        item == filter_item(input.v, index)
    IN IF IsRaise(item) THEN item
       ELSE IF item = PyNone THEN EmptySequence
       ELSE IF IsList(item) THEN item
       ELSE [EmptySequence EXCEPT !.v = Append(@, item)]

FilterInit ==
    /\ flInput \in FilterInputs
    /\ flPredicate \in FilterPredicates
    /\ flResult = [t |-> "unbound"]
    /\ flPc = "call"

FlEvaluate ==
    /\ flPc = "call"
    /\ flResult' = evaluate_filter(flPredicate, flInput)
    /\ flPc' = "done"
    /\ UNCHANGED <<flInput, flPredicate>>
    /\ UNCHANGED <<rangeVars, threadVars, boundsVars, evalVars, applyVars, groupVars, sigVars, symbolVars, parseVars, binaryVars, boolVars, sortVars, lambdaVars, astVars, inputVars>>

FilterNext == FlEvaluate

InitFilter == FilterInit /\ RangeIdle /\ ThreadsIdle /\ BoundsIdle /\ EvalIdle /\ ApplyIdle /\ GroupIdle /\ SigIdle /\ SymbolIdle /\ ParseIdle /\ BinaryIdle /\ BoolIdle /\ SortIdle /\ LambdaIdle /\ AstIdle /\ InputIdle

SpecFilter == InitFilter /\ [][FilterNext]_vars

\* the items of the input as a sequence
ItemsOf(input) == IF input.t = "list" THEN input.v ELSE <<input>>

Selected(item) == [EmptySequence EXCEPT !.v = <<item>>]

\* C19: a numeric predicate k on a sequence of n items selects the item at
\* position k when 0 <= k < n, the item at position n + k when -n <= k < 0,
\* and nothing when k >= n or k < -n.
C19_NumericPredicateSelects ==
    flPc = "done" =>
        LET items == ItemsOf(flInput)
            n == Len(items)
            k == flPredicate.value.v
        IN /\ (0 <= k /\ k < n) => flResult = Selected(items[k + 1])
           /\ (-n <= k /\ k < 0) => flResult = Selected(items[n + k + 1])
           /\ (k >= n \/ k < -n) => flResult = EmptySequence

(***************************************************************************)
(* evaluate_numeric_expression and evaluate_comparison_expression          *)
(***************************************************************************)
MaxOperand == 2

NumericOps == {"+", "-", "*", "/", "%"}
ComparisonOps == {"<", "<=", ">", ">="}

\* The operands: absent (None), ints, a float, strings, a boolean, a list.
Operands ==
    {PyNone} \cup {PyInt(i) : i \in -MaxOperand .. MaxOperand}
        \cup {PyFloat(MaxOperand), PyStr("a"), PyStr("b"), PyBool(TRUE), PyList(<<>>)}

\* Utils.is_numeric on a finite value: an int or a float, never a bool
is_numeric(v) == v.t \in {"int", "float"}

Abs(n) == IF n < 0 THEN -n ELSE n

Sign(n) == IF n < 0 THEN -1 ELSE 1

RECURSIVE Gcd(_, _)
Gcd(a, b) == IF b = 0 THEN a ELSE Gcd(b, a % b)

\* lhs / rhs on floats followed by Utils.convert_number: an int when the
\* quotient is integral, else the float, written as a reduced fraction.
true_divide(a, b) ==
    IF b = 0 THEN Raise("ZeroDivisionError")
    ELSE IF Abs(a) % Abs(b) = 0 THEN PyInt(Sign(a) * Sign(b) * (Abs(a) \div Abs(b)))
    ELSE PyFloat([num |-> Sign(a) * Sign(b) * (Abs(a) \div Gcd(Abs(a), Abs(b))),
                  den |-> Abs(b) \div Gcd(Abs(a), Abs(b))])

\* int(math.fmod(lhs, rhs)): the remainder has the sign of the dividend
fmod(a, b) ==
    IF b = 0 THEN Raise("ValueError") ELSE PyInt(Sign(a) * (Abs(a) % Abs(b)))

evaluate_numeric_expression(lhs, rhs, op) ==
    IF lhs # PyNone /\ ~is_numeric(lhs) THEN Raise("T2001")
    ELSE IF rhs # PyNone /\ ~is_numeric(rhs) THEN Raise("T2002")
    ELSE IF lhs = PyNone \/ rhs = PyNone THEN PyNone
    ELSE CASE op = "+" -> PyInt(lhs.v + rhs.v)
           [] op = "-" -> PyInt(lhs.v - rhs.v)
           [] op = "*" -> PyInt(lhs.v * rhs.v)
           [] op = "/" -> true_divide(lhs.v, rhs.v)
           [] op = "%" -> fmod(lhs.v, rhs.v)

\* lcomparable, rcomparable: absent, a string, or a number that is no bool
comparable(v) == v = PyNone \/ v.t = "str" \/ v.t \in {"int", "float"}

\* the order of Python on the strings of Operands
StrOrd(s) == IF s = "a" THEN 1 ELSE 2

\* the key two values of one kind are compared by
OrdKey(v) == IF v.t = "str" THEN StrOrd(v.v) ELSE v.v

evaluate_comparison_expression(lhs, rhs, op) ==
    IF ~comparable(lhs) \/ ~comparable(rhs) THEN Raise("T2010")
    ELSE IF lhs = PyNone \/ rhs = PyNone THEN PyNone
    ELSE IF lhs.t # rhs.t /\ ~(is_numeric(lhs) /\ is_numeric(rhs)) THEN Raise("T2009")
    ELSE CASE op = "<" -> PyBool(OrdKey(lhs) < OrdKey(rhs))
           [] op = "<=" -> PyBool(OrdKey(lhs) <= OrdKey(rhs))
           [] op = ">" -> PyBool(OrdKey(lhs) > OrdKey(rhs))
           [] op = ">=" -> PyBool(OrdKey(lhs) >= OrdKey(rhs))

BinaryInit ==
    /\ biLhs \in Operands
    /\ biRhs \in Operands
    /\ biOp \in NumericOps \cup ComparisonOps
    /\ biResult = [t |-> "unbound"]
    /\ biPc = "call"

\* evaluate_binary, op one of + - * / %
BiNumeric ==
    /\ biPc = "call"
    /\ biOp \in NumericOps
    /\ biResult' = evaluate_numeric_expression(biLhs, biRhs, biOp)
    /\ biPc' = "done"
    /\ UNCHANGED <<biLhs, biRhs, biOp>>
    /\ UNCHANGED <<rangeVars, threadVars, boundsVars, evalVars, applyVars, groupVars, sigVars, symbolVars, parseVars, filterVars, boolVars, sortVars, lambdaVars, astVars, inputVars>>

\* evaluate_binary, op one of < <= > >=
BiComparison ==
    /\ biPc = "call"
    /\ biOp \in ComparisonOps
    /\ biResult' = evaluate_comparison_expression(biLhs, biRhs, biOp)
    /\ biPc' = "done"
    /\ UNCHANGED <<biLhs, biRhs, biOp>>
    /\ UNCHANGED <<rangeVars, threadVars, boundsVars, evalVars, applyVars, groupVars, sigVars, symbolVars, parseVars, filterVars, boolVars, sortVars, lambdaVars, astVars, inputVars>>

BinaryNext == BiNumeric \/ BiComparison

InitBinary == BinaryInit /\ RangeIdle /\ ThreadsIdle /\ BoundsIdle /\ EvalIdle /\ ApplyIdle /\ GroupIdle /\ SigIdle /\ SymbolIdle /\ ParseIdle /\ FilterIdle /\ BoolIdle /\ SortIdle /\ LambdaIdle /\ AstIdle /\ InputIdle

SpecBinary == InitBinary /\ [][BinaryNext]_vars

\* C20: an arithmetic operator or an ordering comparison with at least one
\* absent operand evaluates to absent and raises nothing, whatever the other
\* operand is.
C20_AbsentOperandYieldsAbsent ==
    (biPc = "done" /\ (biLhs = PyNone \/ biRhs = PyNone)) => biResult = PyNone

(***************************************************************************)
(* evaluate_binary on "and" / "or" and evaluate_boolean_expression         *)
(***************************************************************************)
\* An operand expression by what evaluating it does: the value it yields,
\* whether it binds a variable on the way, and what it raises, if anything.
BoolValues ==
    {PyNone, PyBool(TRUE), PyBool(FALSE), PyInt(0), PyInt(1), PyStr(""), PyStr("a")}

Raises == {NoRaise, "JException", "Exception"}

BoolOperands ==
    {[value |-> v, binds |-> b, raises |-> r] :
        v \in BoolValues, b \in BOOLEAN, r \in Raises}

\* Functions.to_boolean on None, a boolean, a number, a string
to_boolean(value) ==
    CASE value.t = "none" -> PyNone
      [] value.t = "bool" -> value
      [] value.t = "int" -> PyBool(value.v # 0)
      [] value.t = "str" -> PyBool(value.v # "")

\* Jsonata.boolize
boolize(value) ==
    IF to_boolean(value) = PyNone THEN FALSE ELSE to_boolean(value).v

\* evaluate_boolean_expression calling evalrhs whatever l_bool is
calls_evalrhs_eager(op, l_bool) == TRUE

\* l_bool and boolize(evalrhs()), l_bool or boolize(evalrhs()): whether
\* Python evaluates the right operand of its and / or
calls_evalrhs(op, l_bool) ==
    IF op = "and" THEN l_bool ELSE ~l_bool

\* the except clause of evaluate_binary: what is not a JException is
\* replaced with JException("Unexpected")
boolean_raise(raises) ==
    IF raises = "JException" THEN Raise("JException") ELSE Raise("Unexpected")

BoolInit ==
    /\ boOp \in {"and", "or"}
    /\ boLhsExpr \in BoolOperands
    /\ boRhsExpr \in BoolOperands
    /\ boLhs = [t |-> "unbound"]
    /\ boLog = <<>>
    /\ boEnv = {}
    /\ boResult = [t |-> "unbound"]
    /\ boPc = "call"

\* lhs = self.eval(expr.lhs, input_item, environment)
BoEvalLhs ==
    /\ boPc = "call"
    /\ boLog' = Append(boLog, "lhs")
    /\ boEnv' = IF boLhsExpr.binds THEN boEnv \cup {"lhs"} ELSE boEnv
    /\ IF boLhsExpr.raises # NoRaise
       THEN /\ boResult' = Raise(boLhsExpr.raises)
            /\ boPc' = "done"
            /\ UNCHANGED boLhs
       ELSE /\ boLhs' = boLhsExpr.value
            /\ boPc' = "boolean"
            /\ UNCHANGED boResult
    /\ UNCHANGED <<boOp, boLhsExpr, boRhsExpr>>
    /\ UNCHANGED <<rangeVars, threadVars, boundsVars, evalVars, applyVars, groupVars, sigVars, symbolVars, parseVars, filterVars, binaryVars, sortVars, lambdaVars, astVars, inputVars>>

\* evaluate_boolean_expression where evalrhs is not called
BoShortCircuit ==
    /\ boPc = "boolean"
    /\ ~calls_evalrhs(boOp, boolize(boLhs))
    /\ boResult' = PyBool(boolize(boLhs))
    /\ boPc' = "done"
    /\ UNCHANGED <<boOp, boLhsExpr, boRhsExpr, boLhs, boLog, boEnv>>
    /\ UNCHANGED <<rangeVars, threadVars, boundsVars, evalVars, applyVars, groupVars, sigVars, symbolVars, parseVars, filterVars, binaryVars, sortVars, lambdaVars, astVars, inputVars>>

\* evaluate_boolean_expression where evalrhs is called
BoEvalRhs ==
    /\ boPc = "boolean"
    /\ calls_evalrhs(boOp, boolize(boLhs))
    /\ boLog' = Append(boLog, "rhs")
    /\ boEnv' = IF boRhsExpr.binds THEN boEnv \cup {"rhs"} ELSE boEnv
    /\ boResult' = IF boRhsExpr.raises # NoRaise
                   THEN boolean_raise(boRhsExpr.raises)
                   ELSE PyBool(boolize(boRhsExpr.value))
    /\ boPc' = "done"
    /\ UNCHANGED <<boOp, boLhsExpr, boRhsExpr, boLhs>>
    /\ UNCHANGED <<rangeVars, threadVars, boundsVars, evalVars, applyVars, groupVars, sigVars, symbolVars, parseVars, filterVars, binaryVars, sortVars, lambdaVars, astVars, inputVars>>

BoolNext == BoEvalLhs \/ BoShortCircuit \/ BoEvalRhs

InitBool == BoolInit /\ RangeIdle /\ ThreadsIdle /\ BoundsIdle /\ EvalIdle /\ ApplyIdle /\ GroupIdle /\ SigIdle /\ SymbolIdle /\ ParseIdle /\ FilterIdle /\ BinaryIdle /\ SortIdle /\ LambdaIdle /\ AstIdle /\ InputIdle

SpecBool == InitBool /\ [][BoolNext]_vars

\* the left operand has been evaluated, raised nothing, and decides the result
ShortCircuited ==
    /\ boPc \in {"boolean", "done"}
    /\ boLhsExpr.raises = NoRaise
    /\ \/ boOp = "and" /\ ~boolize(boLhsExpr.value)
       \/ boOp = "or" /\ boolize(boLhsExpr.value)

\* C21: in "lhs and rhs" with lhs falsy and in "lhs or rhs" with lhs truthy the
\* right operand is never evaluated, so nothing it would raise or bind
\* happens; otherwise it is evaluated exactly once, after lhs.
C21_ShortCircuit ==
    /\ boLog \in {<<>>, <<"lhs">>, <<"lhs", "rhs">>}
    /\ ShortCircuited =>
        /\ boLog = <<"lhs">>
        /\ "rhs" \notin boEnv
        /\ boPc = "done" => boResult = PyBool(boOp = "or")
    /\ (boPc = "done" /\ boLhsExpr.raises = NoRaise /\ ~ShortCircuited) =>
        boLog = <<"lhs", "rhs">>

C21_Witness ==
    /\ boPc = "done"
    /\ ShortCircuited
    /\ boRhsExpr.raises # NoRaise
    /\ boRhsExpr.binds

(***************************************************************************)
(* ComparatorWrapper.compare, the comparator of the order-by operator      *)
(***************************************************************************)
MaxTerms == 2

\* What a term's expression evaluates to on an item: absent, a number, a
\* string, or a value that cannot be ordered.
TermValues == {PyNone, PyInt(1), PyInt(2), PyStr("a"), PyStr("b"), PyBool(TRUE)}

\* An item by the values of the terms on it; a term is ascending or descending.
SortItems(n) == [1 .. n -> TermValues]

SortTerms(n) == [1 .. n -> [descending : BOOLEAN]]

\* (not isinstance(v, bool) and isinstance(v, (int, float))) or isinstance(v, str)
sortable(v) == v.t \in {"int", "float", "str"}

\* same_type: both numbers, or one type a subclass of the other
same_type(aa, bb) == (is_numeric(aa) /\ is_numeric(bb)) \/ aa.t = bb.t

\* the comparator with an absent value ordered first
absent_comp_first(aa, bb) ==
    IF aa = PyNone THEN (IF bb = PyNone THEN 0 ELSE -1) ELSE 1

\* comp when aa or bb is None
absent_comp(aa, bb) ==
    IF aa = PyNone THEN (IF bb = PyNone THEN 0 ELSE 1) ELSE -1

\* comp of two values of the same type that differ, under the term
term_comp(aa, bb, term) ==
    IF term.descending
    THEN -(IF OrdKey(aa) < OrdKey(bb) THEN -1 ELSE 1)
    ELSE (IF OrdKey(aa) < OrdKey(bb) THEN -1 ELSE 1)

\* the while loop of compare; index counts from 0 as in the source
RECURSIVE compare_loop(_, _, _, _, _)
compare_loop(terms, a, b, comp, index) ==
    IF ~(comp = 0 /\ index < Len(terms)) THEN PyInt(comp)
    ELSE IF a[index + 1] = PyNone \/ b[index + 1] = PyNone
         THEN compare_loop(terms, a, b, absent_comp(a[index + 1], b[index + 1]), index + 1)
    ELSE IF ~sortable(a[index + 1]) \/ ~sortable(b[index + 1]) THEN Raise("T2008")
    ELSE IF ~same_type(a[index + 1], b[index + 1]) THEN Raise("T2007")
    ELSE IF OrdKey(a[index + 1]) = OrdKey(b[index + 1])
         THEN compare_loop(terms, a, b, comp, index + 1)
    ELSE compare_loop(terms, a, b,
                      term_comp(a[index + 1], b[index + 1], terms[index + 1]), index + 1)

compare(terms, a, b) == compare_loop(terms, a, b, 0, 0)

SortInit ==
    /\ \E n \in 1 .. MaxTerms :
        /\ cmTerms \in SortTerms(n)
        /\ cmA \in SortItems(n)
        /\ cmB \in SortItems(n)
    /\ cmResult = [t |-> "unbound"]
    /\ cmReverse = [t |-> "unbound"]
    /\ cmPc = "call"

\* the comparator called on (a, b) and on (b, a) by the sort
CmCompare ==
    /\ cmPc = "call"
    /\ cmResult' = compare(cmTerms, cmA, cmB)
    /\ cmReverse' = compare(cmTerms, cmB, cmA)
    /\ cmPc' = "done"
    /\ UNCHANGED <<cmTerms, cmA, cmB>>
    /\ UNCHANGED <<rangeVars, threadVars, boundsVars, evalVars, applyVars, groupVars, sigVars, symbolVars, parseVars, filterVars, binaryVars, boolVars, lambdaVars, astVars, inputVars>>

SortNext == CmCompare

InitSort == SortInit /\ RangeIdle /\ ThreadsIdle /\ BoundsIdle /\ EvalIdle /\ ApplyIdle /\ GroupIdle /\ SigIdle /\ SymbolIdle /\ ParseIdle /\ FilterIdle /\ BinaryIdle /\ BoolIdle /\ LambdaIdle /\ AstIdle /\ InputIdle

SpecSort == InitSort /\ [][SortNext]_vars

\* the terms on which the two items differ
Differing == {i \in 1 .. Len(cmTerms) : cmA[i] # cmB[i]}

FirstDiffering == CHOOSE i \in Differing : \A j \in Differing : i <= j

\* what the term i says about the two items: absent after present, else the
\* order of the values, negated when the term is descending
Outcome(i) ==
    IF cmA[i] = PyNone THEN 1
    ELSE IF cmB[i] = PyNone THEN -1
    ELSE IF cmTerms[i].descending
         THEN (IF OrdKey(cmA[i]) < OrdKey(cmB[i]) THEN 1 ELSE -1)
         ELSE (IF OrdKey(cmA[i]) < OrdKey(cmB[i]) THEN -1 ELSE 1)

\* C22: the comparator returns the outcome of the first term on which the two
\* items differ, negated when that term is descending, with an absent value
\* after a present one under either direction; it returns 0 only if no term
\* distinguishes the items; and compare(a, b) = -compare(b, a).
C22_FirstDifferingTermDecides ==
    (cmPc = "done" /\ ~IsRaise(cmResult)) =>
        /\ Differing # {} => cmResult = PyInt(Outcome(FirstDiffering))
        /\ Differing = {} => cmResult = PyInt(0)
        /\ cmResult = PyInt(0) => Differing = {}
        /\ ~IsRaise(cmReverse) /\ cmReverse = PyInt(-cmResult.v)

C22_Witness ==
    /\ cmPc = "done"
    /\ Len(cmTerms) = MaxTerms
    /\ Differing = {MaxTerms}
    /\ cmTerms[MaxTerms].descending
    /\ cmA[MaxTerms] = PyNone
    /\ cmResult = PyInt(1)

(***************************************************************************)
(* evaluate_lambda, apply_inner and apply_procedure on frames              *)
(***************************************************************************)
MaxLambdaArgs == 2

\* The variables of the expressions, and frames: a frame has its parent (0 for
\* none) and its bindings; Missing stands for a name not in the dict.
Names == {"x", "y"}

Missing == [t |-> "missing"]

Frame(parent, bindings) == [parent |-> parent, bindings |-> bindings]

\* The frames before the application: the global one, the one the lambda is
\* defined in, and the caller's.
GlobalFrame == 1
ClosureFrame == 2
CallerFrame == 3

\* Frame.bind
bind(frames, env, name, val) == [frames EXCEPT ![env].bindings[name] = val]

\* Frame.lookup
RECURSIVE lookup(_, _, _)
lookup(frames, env, name) ==
    IF frames[env].bindings[name] # Missing THEN frames[env].bindings[name]
    ELSE IF frames[env].parent # 0 THEN lookup(frames, frames[env].parent, name)
    ELSE PyNone

\* create_frame
create_frame(frames, enclosing_environment) ==
    Append(frames, Frame(enclosing_environment, [n \in Names |-> Missing]))

\* The lambda expressions: function($a1, ..) { $body }, with distinct parameters
LambdaExprs ==
    {[arguments |-> a, body |-> b] :
        a \in {<<>>, <<"x">>, <<"y">>, <<"x", "y">>, <<"y", "x">>}, b \in Names}

\* evaluate_lambda: the closure
evaluate_lambda(expr, environment) ==
    [type |-> "lambda", environment |-> environment, arguments |-> expr.arguments,
     body |-> expr.body]

\* apply_procedure, "for i, arg in enumerate(proc.arguments)": i counts from 0
RECURSIVE bind_arguments(_, _, _, _, _)
bind_arguments(frames, env, arguments, args, i) ==
    IF i >= Len(arguments) THEN frames
    ELSE IF i >= Len(args) THEN frames
    ELSE bind_arguments(bind(frames, env, arguments[i + 1], args[i + 1]),
                        env, arguments, args, i + 1)

\* evaluate_variable of $name
evaluate_variable(frames, env, name) == lookup(frames, env, name)

LambdaInit ==
    /\ \E g \in [Names -> {Missing, PyInt(1)}], c \in [Names -> {Missing, PyInt(2)}],
          k \in [Names -> {Missing, PyInt(3)}] :
        /\ k["y"] = Missing
        /\ lmFrames = <<Frame(0, g), Frame(GlobalFrame, c), Frame(ClosureFrame, k)>>
    /\ lmBefore = <<>>
    /\ lmExpr \in LambdaExprs
    /\ lmArgs \in SeqUpTo({PyInt(7), PyInt(8)}, MaxLambdaArgs)
    /\ lmProc = [t |-> "unbound"]
    /\ lmEnv = 0
    /\ lmBody = [t |-> "unbound"]
    /\ lmResult = [t |-> "unbound"]
    /\ lmPc = "lambda"

\* _eval of the lambda expression in the frame it is written in
LmEvaluateLambda ==
    /\ lmPc = "lambda"
    /\ lmProc' = evaluate_lambda(lmExpr, ClosureFrame)
    /\ lmBefore' = lmFrames
    /\ lmPc' = "apply_inner"
    /\ UNCHANGED <<lmFrames, lmExpr, lmArgs, lmEnv, lmBody, lmResult>>
    /\ UNCHANGED <<rangeVars, threadVars, boundsVars, evalVars, applyVars, groupVars, sigVars, symbolVars, parseVars, filterVars, binaryVars, boolVars, sortVars, astVars, inputVars>>

\* apply_inner, first chain: the closure has no signature, and
\* Functions.is_lambda(proc) holds: apply_procedure
LmApplyProcedure ==
    /\ lmPc = "apply_inner"
    /\ lmEnv' = Len(lmFrames) + 1
    /\ lmFrames' = bind_arguments(create_frame(lmFrames, lmProc.environment), lmEnv',
                                  lmProc.arguments, lmArgs, 0)
    /\ lmBody' = evaluate_variable(lmFrames', lmEnv', lmProc.body)
    /\ lmResult' = lmBody'
    /\ lmPc' = "second"
    /\ UNCHANGED <<lmBefore, lmExpr, lmArgs, lmProc>>
    /\ UNCHANGED <<rangeVars, threadVars, boundsVars, evalVars, applyVars, groupVars, sigVars, symbolVars, parseVars, filterVars, binaryVars, boolVars, sortVars, astVars, inputVars>>

\* apply_inner, second chain
LmSecondChain ==
    /\ lmPc = "second"
    /\ lmResult' = SecondChain(lmProc, lmResult)
    /\ lmPc' = IF IsRaise(lmResult') THEN "error" ELSE "done"
    /\ UNCHANGED <<lmFrames, lmBefore, lmExpr, lmArgs, lmProc, lmEnv, lmBody>>
    /\ UNCHANGED <<rangeVars, threadVars, boundsVars, evalVars, applyVars, groupVars, sigVars, symbolVars, parseVars, filterVars, binaryVars, boolVars, sortVars, astVars, inputVars>>

LambdaNext == LmEvaluateLambda \/ LmApplyProcedure \/ LmSecondChain

InitLambda == LambdaInit /\ RangeIdle /\ ThreadsIdle /\ BoundsIdle /\ EvalIdle /\ ApplyIdle /\ GroupIdle /\ SigIdle /\ SymbolIdle /\ ParseIdle /\ FilterIdle /\ BinaryIdle /\ BoolIdle /\ SortIdle /\ AstIdle /\ InputIdle

SpecLambda == InitLambda /\ [][LambdaNext]_vars

\* C24: applying a lambda that declares n parameters to n arguments returns
\* the value of its body evaluated in a new frame whose parent is the closure
\* frame and in which parameter i is bound to argument i; no "not a function"
\* error is raised, and the bindings of the closure frame and of the caller's
\* frame are unchanged.
C24_LambdaApplication ==
    (lmPc \in {"done", "error"} /\ Len(lmArgs) = Len(lmExpr.arguments)) =>
        /\ lmPc = "done"
        /\ lmResult # Raise("T1006")
        /\ lmEnv \notin DOMAIN lmBefore
        /\ lmFrames[lmEnv].parent = ClosureFrame
        /\ \A i \in 1 .. Len(lmArgs) : lmFrames[lmEnv].bindings[lmExpr.arguments[i]] = lmArgs[i]
        /\ lmResult = lookup(lmFrames, lmEnv, lmExpr.body)
        /\ \A f \in DOMAIN lmBefore : lmFrames[f] = lmBefore[f]

\* C29: when a lambda declared with p1..pn is applied to fewer than n
\* arguments, every parameter that received no argument evaluates to absent
\* inside the body, even when the closure frame or one of its ancestors binds
\* a variable of that name.
C29_UnsuppliedParameterIsAbsent ==
    (lmPc \in {"second", "done", "error"} /\ Len(lmArgs) < Len(lmExpr.arguments)) =>
        \A i \in (Len(lmArgs) + 1) .. Len(lmExpr.arguments) :
            /\ evaluate_variable(lmFrames, lmEnv, lmExpr.arguments[i]) = PyNone
            /\ lmExpr.body = lmExpr.arguments[i] => lmBody = PyNone

(***************************************************************************)
(* Parser.parse on the trees of lambdas, calls, conditions, blocks,        *)
(* predicates and group-bys                                                *)
(***************************************************************************)
MaxTcoDepth == 2

\* The trees expression(0) builds, as the nud and led of the symbols leave
\* them: Terminal.nud for names, variables and numbers,
\* InfixParentOperator.nud for %, Infix.led for the binary operators,
\* InfixFunctionInvocation.led for calls and lambdas, InfixTernaryOperator.led
\* for conditions, the nud of "(" for blocks, object_parser for group-bys.
RawName(v) == [Symbol("(name)") EXCEPT !.class = "Terminal", !.type = "name", !.value = v]

RawVariable(v) == [Symbol("(name)") EXCEPT !.class = "Terminal", !.type = "variable", !.value = v]

RawNumber == [Symbol("(literal)") EXCEPT !.class = "Terminal", !.type = "number", !.value = "1"]

RawParent == [Symbol("%") EXCEPT !.class = "InfixParentOperator", !.type = "parent"]

RawBinary(op, lhs, rhs) ==
    [Symbol(op) EXCEPT !.class = "Infix", !.type = "binary", !.lhs = lhs, !.rhs = rhs]

RawFunction(procedure, arguments) ==
    [Symbol("(") EXCEPT !.class = "InfixFunctionInvocation", !.type = "function",
                        !.procedure = procedure, !.arguments = arguments]

RawLambda(body) ==
    [Symbol("(") EXCEPT !.class = "InfixFunctionInvocation", !.type = "lambda", !.body = body]

RawCondition(condition, then, else_) ==
    [Symbol("?") EXCEPT !.class = "InfixTernaryOperator", !.type = "condition",
                        !.condition = condition, !.then = then, !.else_ = else_]

RawBlock(expressions) ==
    [Symbol("(") EXCEPT !.class = "InfixFunctionInvocation", !.type = "block",
                        !.expressions = expressions]

\* lhs{$k: $v}: the pairs of rhs_object one after the other
RawGroup(lhs) ==
    [Symbol("{") EXCEPT !.class = "Infix", !.type = "binary", !.lhs = lhs,
                        !.rhs_object = <<RawVariable("k"), RawVariable("v")>>]

RawPredicate(lhs) == RawBinary("[", lhs, RawNumber)

\* $f(), $f()[1], and what stands where no tail call can be
Call(arguments) == RawFunction(RawVariable("f"), arguments)

NonTail ==
    {RawNumber, Call(<<>>), RawPredicate(Call(<<>>)), RawBlock(<<Call(<<>>)>>),
     RawCondition(RawNumber, Call(<<>>), PyNone)}

\* The bodies of the lambdas, nested up to d deep
RECURSIVE Bodies(_)
Bodies(d) ==
    IF d = 0 THEN {RawNumber, Call(<<>>), RawPredicate(Call(<<>>)), Call(<<Call(<<>>)>>)}
    ELSE Bodies(d - 1)
         \cup {RawCondition(c, t, e) : c \in {RawNumber, Call(<<>>)}, t \in Bodies(d - 1),
                                       e \in {PyNone, RawNumber, Call(<<>>)}}
         \cup {RawCondition(RawNumber, RawNumber, e) : e \in Bodies(d - 1)}
         \cup {RawBlock(<<l>>) : l \in Bodies(d - 1)}
         \cup {RawBlock(<<s, l>>) : s \in NonTail, l \in Bodies(d - 1)}
         \cup {Call(<<a>>) : a \in NonTail}
         \cup {RawLambda(b) : b \in Bodies(d - 1)}

Lambdas == {RawLambda(b) : b \in Bodies(MaxTcoDepth)}

\* The places of a parent operator: alone, after a name, in a lambda body, as
\* the procedure or an argument of a call, in a block, in a condition, as an
\* operand of ~>.
Parents ==
    {RawParent,
     RawBinary(".", RawName("a"), RawParent),
     RawBinary(".", RawBinary(".", RawName("a"), RawName("b")), RawParent),
     RawLambda(RawParent),
     RawLambda(RawBinary(".", RawName("a"), RawParent)),
     RawBinary(".", RawName("a"), RawLambda(RawParent)),
     RawFunction(RawParent, <<>>),
     RawFunction(RawVariable("f"), <<RawParent>>),
     RawBinary(".", RawName("a"), RawFunction(RawVariable("f"), <<RawParent>>)),
     RawBlock(<<RawParent>>),
     RawCondition(RawParent, RawNumber, PyNone),
     RawCondition(RawNumber, RawNumber, RawParent),
     RawBinary("~>", RawName("a"), RawParent),
     RawBinary("~>", RawParent, RawVariable("f"))}

\* What a predicate or a group-by is written after: a variable, a call, a
\* name, a path of two names
Bases ==
    {RawVariable("x"), Call(<<>>), RawName("a"), RawBinary(".", RawName("a"), RawName("b"))}

Suffixed(S) == {RawPredicate(e) : e \in S} \cup {RawGroup(e) : e \in S}

Filters == Suffixed(Bases) \cup Suffixed(Suffixed(Bases)) \cup Suffixed(Suffixed(Suffixed(Bases)))

\* a parser as constructed, and expression(0) having used up the tokens
NewParser == [label |-> 0, index |-> 0, ancestry |-> <<>>, errors |-> <<>>, seen |-> <<>>]

NoTokensLeft == [pos |-> 0, errors |-> <<>>, seen |-> <<>>, raise |-> NoRaise]

AstInit ==
    /\ asRecover \in BOOLEAN
    /\ asRaw \in Lambdas \cup Parents \cup Filters
    /\ asOut = [t |-> "unbound"]
    /\ asAncestry = <<>>
    /\ asPc = "call"

\* parse, from "expr = self.process_ast(expr)" on
AsParse ==
    /\ asPc = "call"
    /\ asOut' = parse_process(asRecover, NewParser, asRaw, NoTokensLeft).out
    /\ asAncestry' = parse_process(asRecover, NewParser, asRaw, NoTokensLeft).st.ancestry
    /\ asPc' = "done"
    /\ UNCHANGED <<asRecover, asRaw>>
    /\ UNCHANGED <<rangeVars, threadVars, boundsVars, evalVars, applyVars, groupVars, sigVars, symbolVars, parseVars, filterVars, binaryVars, boolVars, sortVars, lambdaVars, inputVars>>

AstNext == AsParse

InitAst == AstInit /\ RangeIdle /\ ThreadsIdle /\ BoundsIdle /\ EvalIdle /\ ApplyIdle /\ GroupIdle /\ SigIdle /\ SymbolIdle /\ ParseIdle /\ FilterIdle /\ BinaryIdle /\ BoolIdle /\ SortIdle /\ LambdaIdle /\ InputIdle

SpecAst == InitAst /\ [][AstNext]_vars

\* C25: whenever parse returns a tree, every ancestor slot allocated for a %
\* has been resolved (its level is 0): a % that cannot be resolved to an
\* enclosing step, wherever it stands, is rejected with S0217.
C25_AncestorsResolved ==
    (asPc = "done" /\ asOut.t = "ast") =>
        \A i \in DOMAIN asAncestry : asAncestry[i].level = 0

\* a call in the source: a function node, with a predicate written after it
\* or without
IsCall(raw) == raw.type = "function"

IsPredicatedCall(raw) == raw.type = "binary" /\ raw.value = "[" /\ raw.lhs.type = "function"

\* out is what the semantic pass makes of raw, where tail says that raw stands
\* in tail position: a call without predicate is wrapped exactly when tail
\* holds; the tail position passes to the branches of a condition and to the
\* last expression of a block, and starts at the body of a lambda.
RECURSIVE Thunked(_, _, _)
Thunked(raw, out, tail) ==
    CASE IsCall(raw) ->
            /\ out.type = (IF tail THEN "lambda" ELSE "function")
            /\ out.thunk = tail
            /\ LET call == IF tail THEN out.body ELSE out
               IN /\ call.type = "function"
                  /\ call.predicate = PyNone
                  /\ ~call.thunk
                  /\ Len(call.arguments) = Len(raw.arguments)
                  /\ \A i \in DOMAIN raw.arguments :
                        Thunked(raw.arguments[i], call.arguments[i], FALSE)
      [] IsPredicatedCall(raw) ->
            /\ out.type = "function"
            /\ ~out.thunk
            /\ out.predicate # PyNone
      [] raw.type = "condition" ->
            /\ out.type = "condition"
            /\ Thunked(raw.condition, out.condition, FALSE)
            /\ Thunked(raw.then, out.then, tail)
            /\ IF raw.else_ = PyNone THEN out.else_ = PyNone
               ELSE Thunked(raw.else_, out.else_, tail)
      [] raw.type = "block" ->
            /\ out.type = "block"
            /\ Len(out.expressions) = Len(raw.expressions)
            /\ \A i \in DOMAIN raw.expressions :
                  Thunked(raw.expressions[i], out.expressions[i],
                          tail /\ i = Len(raw.expressions))
      [] raw.type = "lambda" ->
            /\ out.type = "lambda"
            /\ ~out.thunk
            /\ Thunked(raw.body, out.body, TRUE)
      [] OTHER -> out.type = raw.type /\ ~out.thunk

\* C26: after the semantic pass, inside every lambda a call without a
\* predicate is replaced by a thunk wrapper (a lambda with thunk set whose
\* body is the call) if and only if it is in tail position: the body of the
\* lambda, the last expression of a block in tail position, a branch of a
\* condition in tail position.  Calls elsewhere and calls carrying a predicate
\* are left as they are.
C26_ThunkIffTailPosition ==
    (asPc = "done" /\ asRaw \in Lambdas) =>
        /\ asOut.t = "ast"
        /\ Thunked(asRaw, asOut.node, FALSE)

\* function(){ ($f(); c ? $f() : ..) }: the first call of the block is left,
\* the call in the branch of the condition that ends the block is wrapped
C26_Witness ==
    /\ asPc = "done"
    /\ asRaw \in Lambdas
    /\ asOut.t = "ast"
    /\ asOut.node.body.type = "block"
    /\ Len(asOut.node.body.expressions) = 2
    /\ asOut.node.body.expressions[1].type = "function"
    /\ asOut.node.body.expressions[2].type = "condition"
    /\ asOut.node.body.expressions[2].then.thunk
    /\ asOut.node.body.expressions[2].then.body.type = "function"
    /\ asOut.node.body.expressions[2].condition.type = "function"

IsGroup(raw) == raw.type = "binary" /\ raw.value = "{"

IsPredicate(raw) == raw.type = "binary" /\ raw.value = "["

\* C28: a predicate written after a group-by on the same expression is
\* rejected with S0209, whether the grouped left side is a bare expression or
\* a path; a second group-by on a grouped expression is rejected with S0210.
C28_PredicateAfterGroupRejected ==
    (asPc = "done" /\ asRaw \in Filters /\ IsGroup(asRaw.lhs) /\ asRaw.lhs.lhs \in Bases) =>
        /\ IsPredicate(asRaw) => asOut = Raise("S0209")
        /\ IsGroup(asRaw) => asOut = Raise("S0210")
(***************************************************************************)
(* _eval on the caller's input document                                    *)
(***************************************************************************)
\* The lists and dicts of the caller's document are objects with an identity:
\* a value is a scalar, a list made during the evaluation, or a reference to
\* one of the caller's objects.  A dict has at most the key "a"; its items are
\* the value of that key, if it has one.
DocObjects == 2
ObjIds == 1 .. DocObjects

Ref(o) == [t |-> "ref", o |-> o]
IsRef(v) == v.t = "ref"
FreeObj == [kind |-> "free", items |-> <<>>]
ListObj(items) == [kind |-> "list", items |-> items]
DictObj(items) == [kind |-> "dict", items |-> items]
Heap2(o1, o2) == [o \in ObjIds |-> IF o = 1 THEN o1 ELSE IF o = 2 THEN o2 ELSE FreeObj]

\* 1, [], [1], {}, {"a": 1}, [[]], [[1]], {"a": []}, {"a": [1]}
Documents ==
    {[heap |-> Heap2(FreeObj, FreeObj), doc |-> PyInt(1)]} \cup
    {[heap |-> Heap2(ListObj(s), FreeObj), doc |-> Ref(1)] : s \in {<<>>, <<PyInt(1)>>}} \cup
    {[heap |-> Heap2(DictObj(s), FreeObj), doc |-> Ref(1)] : s \in {<<>>, <<PyInt(1)>>}} \cup
    {[heap |-> Heap2(ListObj(<<Ref(2)>>), ListObj(s)), doc |-> Ref(1)] : s \in {<<>>, <<PyInt(1)>>}} \cup
    {[heap |-> Heap2(DictObj(<<Ref(2)>>), ListObj(s)), doc |-> Ref(1)] : s \in {<<>>, <<PyInt(1)>>}}

\* $, ${"k": 1}, {"k": 1}, a, a{"k": 1}, and $t($) with $t bound to |$|$|
InputExprs == {"variable", "variable_group", "unary", "path", "path_group", "transform"}

\* the document a value stands for, references followed
RECURSIVE ValueOf(_, _)
ValueOf(heap, v) ==
    IF IsRef(v)
    THEN [t |-> heap[v.o].kind,
          v |-> [i \in DOMAIN heap[v.o].items |-> ValueOf(heap, heap[v.o].items[i])]]
    ELSE IF IsList(v) THEN [v EXCEPT !.v = [i \in DOMAIN v.v |-> ValueOf(heap, v.v[i])]]
    ELSE v

\* isinstance(v, list), isinstance(v, dict), and the items of a list or dict
IsListV(heap, v) == IF IsRef(v) THEN heap[v.o].kind = "list" ELSE IsList(v)
IsDictV(heap, v) == IF IsRef(v) THEN heap[v.o].kind = "dict" ELSE v.t = "dict"
ItemsV(heap, v) == IF IsRef(v) THEN heap[v.o].items ELSE v.v

\* Utils.create_sequence(el) where el may be one of the caller's objects
create_sequence_of(heap, el) ==
    IF IsListV(heap, el) /\ Len(ItemsV(heap, el)) = 1
    THEN [JList(ItemsV(heap, el)) EXCEPT !.sequence = TRUE]
    ELSE [JList(<<el>>) EXCEPT !.sequence = TRUE]

\* evaluate_variable for "$": the context value
context_value(input_item) ==
    IF IsJList(input_item) /\ input_item.outer_wrapper THEN input_item.v[1]
    ELSE input_item

NotNone(x) == x # PyNone

\* Functions.lookup(input, "a")
RECURSIVE Functions_lookup(_, _)
RECURSIVE lookup_each(_, _)
lookup_each(heap, items) ==
    IF items = <<>> THEN <<>>
    ELSE LET res == Functions_lookup(heap, Head(items))
         IN (IF res = PyNone THEN <<>>
             ELSE IF IsListV(heap, res) THEN ItemsV(heap, res)
             ELSE <<res>>) \o lookup_each(heap, Tail(items))

Functions_lookup(heap, input) ==
    IF IsListV(heap, input)
    THEN [EmptySequence EXCEPT !.v = lookup_each(heap, ItemsV(heap, input))]
    ELSE IF IsDictV(heap, input)
         THEN (IF ItemsV(heap, input) = <<>> THEN PyNone ELSE ItemsV(heap, input)[1])
    ELSE PyNone

\* evaluate_step, "flatten the sequence", over values and references
RECURSIVE flatten_results(_, _)
flatten_results(heap, result) ==
    IF result = <<>> THEN <<>>
    ELSE LET res == Head(result)
         IN (IF ~IsListV(heap, res) \/ (IsJList(res) /\ res.cons) THEN <<res>>
             ELSE ItemsV(heap, res)) \o flatten_results(heap, Tail(result))

\* evaluate_step for the last step, a name without stages
step_result(heap, results) ==
    LET result == SelectSeq(results, NotNone)
    IN IF Len(result) = 1 /\ IsListV(heap, result[1]) /\ ~is_sequence(result[1])
       THEN result[1]
       ELSE [EmptySequence EXCEPT !.v = flatten_results(heap, result)]

\* evaluate_path for the path of the one step a, before its group-by
path_sequence(heap, input_item) ==
    LET input_sequence == IF IsListV(heap, input_item) THEN input_item
                          ELSE create_sequence_of(heap, input_item)
        items == ItemsV(heap, input_sequence)
    IN step_result(heap, [i \in DOMAIN items |->
                              mangle(Functions_lookup(heap, items[i]), FALSE)])

\* the object {"k": 1} that the group-by { "k": 1 } gives for a non-empty input
GroupValue == PyDict([key \in {"k"} |-> PyInt(1)])

\* 'if not input_item' in evaluate_group_expression
is_empty(heap, input_item) == ItemsV(heap, input_item) = <<>>

\* evaluate_group_expression for { "k": 1 }: the heap it leaves and its result
evaluate_group_expression(heap, input_item) ==
    LET as_list == IF IsListV(heap, input_item) THEN input_item
                   ELSE create_sequence_of(heap, input_item)
    IN [heap |-> IF is_empty(heap, as_list) /\ IsRef(as_list)
                 THEN [heap EXCEPT ![as_list.o].items = Append(@, PyNone)]
                 ELSE heap,
        value |-> GroupValue]

\* Functions.function_clone: a copy that shares nothing with its argument
function_clone(heap, obj) == ValueOf(heap, obj)

\* Transformer.call for |$|$|: the matches are objects of the clone and each
\* is updated with its own keys
Transformer_call(heap, input_, args) ==
    LET obj == args[1]
        result == function_clone(heap, obj)
        matches == IF IsList(result) THEN result.v ELSE <<result>>
    IN IF obj = PyNone \/ input_ = PyNone THEN PyNone
       ELSE IF \E i \in DOMAIN matches : matches[i].t # "dict" THEN Raise("T2011")
       ELSE result

\* apply_inner for the transformer, a JFunction of signature <(oa):o>
apply_transformer(heap, input_item, args) ==
    IF ~(IsListV(heap, args[1]) \/ IsDictV(heap, args[1])) THEN Raise("T0410")
    ELSE LET called == Transformer_call(heap, input_item, args)
         IN IF IsRaise(called) THEN called
            ELSE SecondChain([type |-> "JFunction"], called)

\* _eval(expr, input_item, environment) up to its tail: the heap it leaves
\* and its result
eval_input(heap, expr, input_item) ==
    CASE expr = "variable" ->
            [heap |-> heap, value |-> context_value(input_item)]
      [] expr = "variable_group" ->
            evaluate_group_expression(heap, context_value(input_item))
      [] expr = "unary" ->
            [heap |-> heap, value |-> evaluate_unary(expr, <<input_item>>)]
      [] expr = "path" ->
            [heap |-> heap, value |-> path_sequence(heap, input_item)]
      [] expr = "path_group" ->
            evaluate_group_expression(heap, path_sequence(heap, input_item))
      [] expr = "transform" ->
            [heap |-> heap,
             value |-> apply_transformer(heap, input_item, <<context_value(input_item)>>)]

\* the caller holds a document and a parsed expression; a list may come in
\* the outer wrapper that evaluate_variable and evaluate_wildcard unwrap
InputInit ==
    /\ \E d \in Documents :
          /\ inHeap = d.heap
          /\ inDoc = d.doc
          /\ inBefore = ValueOf(d.heap, d.doc)
          /\ inWrapped \in IF IsListV(d.heap, d.doc) THEN BOOLEAN ELSE {FALSE}
    /\ inExpr \in InputExprs
    /\ inResult = PyNone
    /\ inPc = "ready"

\* self.eval(expr, input, environment)
InEval ==
    /\ inPc = "ready"
    /\ LET input_item == IF inWrapped
                         THEN [create_sequence_of(inHeap, inDoc) EXCEPT !.outer_wrapper = TRUE]
                         ELSE inDoc
           out == eval_input(inHeap, inExpr, input_item)
       IN /\ inHeap' = out.heap
          /\ inResult' = IF IsRaise(out.value) THEN out.value
                         ELSE ValueOf(out.heap, mangle(out.value, FALSE))
    /\ inPc' = "done"
    /\ UNCHANGED <<inDoc, inBefore, inWrapped, inExpr>>
    /\ UNCHANGED <<rangeVars, threadVars, boundsVars, evalVars, applyVars, groupVars, sigVars, symbolVars, parseVars, filterVars, binaryVars, boolVars, sortVars, lambdaVars, astVars>>

InputNext == InEval

InitInput == InputInit /\ RangeIdle /\ ThreadsIdle /\ BoundsIdle /\ EvalIdle /\ ApplyIdle /\ GroupIdle /\ SigIdle /\ SymbolIdle /\ ParseIdle /\ FilterIdle /\ BinaryIdle /\ BoolIdle /\ SortIdle /\ LambdaIdle /\ AstIdle

SpecInput == InitInput /\ [][InputNext]_vars

\* C30: evaluating an expression never modifies the caller's input: after the
\* evaluation the input document is equal to what it was before; a group-by
\* applied to an empty array leaves that array empty.
C30_InputUnchanged ==
    inPc = "done" => ValueOf(inHeap, inDoc) = inBefore

====
